---------------------------- MODULE Spec2Model ----------------------------
(***************************************************************************)
(* A model of the inferable-go service: the function registry and the      *)
(* schema of a handler's input (RegisterFunc), the registration handshake  *)
(* and poll loop (Start, Stop, poll) and the dispatcher (handleMessage,    *)
(* persistJobResult), as written in src/unnamed/part_007 (package          *)
(* inferable, type service), and of the client facade that owns it: New,   *)
(* RegisterService and the requests sent (src/unnamed/part_005,            *)
(* src/internal/client/client.go), CallFunc, ToJSONDefinition and          *)
(* getSchema, the machine id (src/unnamed/part_003) and the heartbeat task *)
(* of src/unnamed/part_004.                                                *)
(*                                                                         *)
(* Strings whose content matters (handler inputs and results) are          *)
(* sequences of one-character strings; error texts are short tags.         *)
(***************************************************************************)
EXTENDS Integers, Sequences, FiniteSets, TLC

VARIABLES
    Functions,      \* s.Functions: function name -> Function record
    clusterId,      \* s.clusterId
    ctx,            \* s.ctx / s.cancel: id of the current context, 0 = nil
    cancelled,      \* the context ids whose cancel func has been called
    retryAfter,     \* s.retryAfter (seconds)
    ret,            \* the return value of the last RegisterFunc or Start call
    machines,       \* control plane: POST /machines requests received
    pc,             \* per poll loop (goroutine): where it is
    failureCount,   \* per poll loop: the local failureCount
    parsed,         \* per poll loop: poll()'s parsed batch
    idx,            \* per poll loop: index of the next message of the batch
    errors,         \* per poll loop: poll()'s errors slice
    pollErr,        \* per poll loop: what poll() returned ("nil" or a tag)
    waited,         \* per poll loop: <<seconds its latest time.Sleep lasted>>
    calls,          \* per poll loop: ids of the messages whose handler it called this cycle
    results,        \* control plane: persist-result requests of the loop's current cycle
    failedCycles,   \* history: cycles of the loop for which poll() returned an error
    lastFailed,     \* history: the loop's previous cycle returned an error
    sawConsecutive, \* history: two cycles in a row of the loop returned an error
    selfStopped,    \* history: the loop has called s.Stop() itself
    requests,       \* control plane: the kinds of request received, with their headers
    env,            \* the host and process environment the clients run in
    clients,        \* the Inferable values made by New(), in order of construction
    hb,             \* per client: its heartbeat task (startPingCluster)
    facadeRet,      \* the return value of the last call on a client (New, RegisterService, ..)
    peer            \* the client's other service (its "default" service): that service's fields

vars == <<Functions, clusterId, ctx, cancelled, retryAfter, ret, machines,
          pc, failureCount, parsed, idx, errors, pollErr, waited, calls, results,
          failedCycles, lastFailed, sawConsecutive, selfStopped,
          requests, env, clients, hb, facadeRet, peer>>

svcVars == <<Functions, clusterId, ctx, cancelled, retryAfter, ret, machines>>
loopVars == <<pc, failureCount, parsed, idx, errors, pollErr, waited, calls, results,
              failedCycles, lastFailed, sawConsecutive, selfStopped>>
facadeVars == <<env, clients, hb, facadeRet>>

(***************************************************************************)
(* Program constants                                                       *)
(***************************************************************************)
MaxConsecutivePollFailures == 50
DefaultRetryAfter == 10

(***************************************************************************)
(* Bounds of the model                                                     *)
(***************************************************************************)
\* Successful Start() calls on the service (each creates one poll loop).
MaxStarts == 2
\* Messages in one fetched batch.
MaxBatch == 2
\* Return values of a handler drawn in the dispatch specification.
MaxReturns == 2
\* Cycles of one loop whose poll() returns an error, in the lifecycle
\* specification (the counting specification lets the counter run).
MaxFailedCycles == 1

Loops == 1..MaxStarts

(***************************************************************************)
(* Strings                                                                 *)
(***************************************************************************)
Hello == <<"h", "e", "l", "l", "o">>
HelloInferable ==
    <<"H", "e", "l", "l", "o", ",", " ", "I", "n", "f", "e", "r", "a", "b", "l", "e", "!">>
Boom == <<"b", "o", "o", "m">>
Bang == <<"b", "a", "n", "g">>
Empty == <<>>

\* reverse() of the tests: swap runes[i] and runes[j] while i < j.
RECURSIVE SwapRunes(_, _, _)
SwapRunes(runes, i, j) ==
    IF i < j
    THEN SwapRunes([runes EXCEPT ![i] = runes[j], ![j] = runes[i]], i + 1, j - 1)
    ELSE runes

reverse(input) == SwapRunes(input, 1, Len(input))

(***************************************************************************)
(* Go types as reflection sees them, and the schema the jsonschema         *)
(* reflector makes of them.  A type has a kind, a name ("" when unnamed),  *)
(* fields when it is a struct and an element type when it is a slice       *)
(* (Elem holds it, <<>> otherwise).  A field may carry the optional marker *)
(* (the omitempty option of its json tag).                                 *)
(***************************************************************************)
Type(kind, name, fields, elem) ==
    [Kind |-> kind, Name |-> name, Fields |-> fields, Elem |-> elem]
Field(name, type, optional) == [Name |-> name, Type |-> type, Optional |-> optional]

IntType == Type("int", "int", <<>>, <<>>)
StringType == Type("string", "string", <<>>, <<>>)
Struct(name, fields) == Type("struct", name, fields, <<>>)
Slice(elem) == Type("slice", "", <<>>, <<elem>>)
MapOfString == Type("map", "", <<>>, <<StringType>>)
Ptr(elem) == Type("ptr", "", <<>>, <<elem>>)

\* A schema node: a $ref to a definition, or a type with its properties,
\* required list, additionalProperties entry and items.
Schema(type, ref, properties, required, additionalProperties, items) ==
    [type |-> type, ref |-> ref, properties |-> properties, required |-> required,
     additionalProperties |-> additionalProperties, items |-> items]
Property(name, schema) == [name |-> name, schema |-> schema]

JSONType(kind) ==
    CASE kind = "int" -> "integer"
      [] kind = "string" -> "string"
      [] kind = "bool" -> "boolean"
      [] OTHER -> kind

\* The names of the fields of t without the optional marker, in field order.
RECURSIVE RequiredOf(_)
RequiredOf(fields) ==
    IF fields = <<>> THEN <<>>
    ELSE (IF Head(fields).Optional THEN <<>> ELSE <<Head(fields).Name>>)
             \o RequiredOf(Tail(fields))

\* reflectTypeToSchema: a named struct is put among the definitions and
\* referred to by $ref; an unnamed struct is described in place.
RECURSIVE SchemaOf(_)
RECURSIVE ObjectSchema(_)
ObjectSchema(t) ==
    Schema("object", "",
           [i \in 1..Len(t.Fields) |-> Property(t.Fields[i].Name, SchemaOf(t.Fields[i].Type))],
           RequiredOf(t.Fields), "false", <<>>)

SchemaOf(t) ==
    CASE t.Kind = "struct" /\ t.Name # "" ->
            Schema("", "#/$defs/" \o t.Name, <<>>, <<>>, "nil", <<>>)
      [] t.Kind = "struct" -> ObjectSchema(t)
      [] t.Kind = "slice" -> Schema("array", "", <<>>, <<>>, "nil", <<SchemaOf(t.Elem[1])>>)
      [] t.Kind = "ptr" -> SchemaOf(t.Elem[1])
      [] OTHER -> Schema(JSONType(t.Kind), "", <<>>, <<>>, "nil", <<>>)

\* The named struct types met while reflecting t.
RECURSIVE NamedStructs(_)
NamedStructs(t) ==
    (IF t.Kind = "struct" /\ t.Name # "" THEN {t} ELSE {})
        \cup UNION {NamedStructs(t.Fields[i].Type) : i \in 1..Len(t.Fields)}
        \cup UNION {NamedStructs(t.Elem[i]) : i \in 1..Len(t.Elem)}

\* reflector.Reflect(reflect.New(argType).Interface()).Definitions
Reflect(t) ==
    LET named == NamedStructs(t) IN
    [n \in {u.Name : u \in named} |-> ObjectSchema(CHOOSE u \in named : u.Name = n)]

\* strings.Contains(string(defsString), "\"$ref\":\"#/$defs"): the marshalled
\* schema holds a $ref somewhere.
RECURSIVE ContainsRef(_)
ContainsRef(schema) ==
    \/ schema.ref # ""
    \/ \E i \in 1..Len(schema.properties) : ContainsRef(schema.properties[i].schema)
    \/ \E i \in 1..Len(schema.items) : ContainsRef(schema.items[i])

(***************************************************************************)
(* Handlers.  A handler (Function.Func) is described by its parameter      *)
(* types (In) and by what it returns when called.                          *)
(***************************************************************************)
\* A return value: its static type is error or something else; it may be nil.
Val(s) == [typ |-> "value", isNil |-> FALSE, s |-> s]
NilVal == [typ |-> "value", isNil |-> TRUE, s |-> Empty]
Err(s) == [typ |-> "error", isNil |-> FALSE, s |-> s]
NilErr == [typ |-> "error", isNil |-> TRUE, s |-> Empty]
\* A value of a type encoding/json cannot marshal (a chan int).
ChanVal == [typ |-> "chan", isNil |-> FALSE, s |-> Empty]

Handler(in, body, rets) == [In |-> in, Body |-> body, Rets |-> rets]

\* type EchoInput struct { Input string }
EchoInput == Struct("EchoInput", <<Field("Input", StringType, FALSE)>>)
\* type ReverseInput struct { Input string }
ReverseInput == Struct("ReverseInput", <<Field("Input", StringType, FALSE)>>)
\* type F struct { G int `json:"g"` }
F == Struct("F", <<Field("g", IntType, FALSE)>>)
\* type TestInput struct { A int; B int; C []struct { D int; E string; F []F } }
TestInputWithRef ==
    Struct("TestInput",
           <<Field("a", IntType, FALSE), Field("b", IntType, FALSE),
             Field("c", Slice(Struct("", <<Field("d", IntType, FALSE), Field("e", StringType, FALSE),
                                            Field("f", Slice(F), FALSE)>>)), FALSE)>>)

\* type TestInput struct { A int `json:"a"`; B int `json:"b"` }  (TestGetSchema)
TestInput == Struct("TestInput", <<Field("a", IntType, FALSE), Field("b", IntType, FALSE)>>)
\* type TestInput2 struct { C struct { D int; E []int } `json:"c"` }  (TestGetSchema)
TestInput2 ==
    Struct("TestInput2",
           <<Field("c", Struct("", <<Field("d", IntType, FALSE),
                                     Field("e", Slice(IntType), FALSE)>>), FALSE)>>)
\* type SearchInput struct { Query string `json:"query"`; Limit int `json:"limit,omitempty"` }
SearchInput ==
    Struct("SearchInput", <<Field("query", StringType, FALSE), Field("limit", IntType, TRUE)>>)

\* func echo(input EchoInput) string
echo == Handler(<<EchoInput>>, "echo", <<>>)
\* func reverse(input ReverseInput) string
reverseFn == Handler(<<ReverseInput>>, "reverse", <<>>)
\* func(input In) (interface{}, error) { return nil, errors.New("boom") }
failing == Handler(<<EchoInput>>, "const", <<NilVal, Err(Boom)>>)
\* func(a, b int) int  (invalidFunc of TestRegisterFunc)
twoArgs == Handler(<<IntType, IntType>>, "const", <<Val(Empty)>>)
\* func(a int) int
nonStruct == Handler(<<IntType>>, "const", <<Val(Empty)>>)
\* func(input TestInput) int, TestInput holding []F (TestErrorneousRegistration)
withRef == Handler(<<TestInputWithRef>>, "const", <<Val(Empty)>>)
\* func() int
zeroArgs == Handler(<<>>, "const", <<Val(Empty)>>)
\* func(input EchoInput, n int) int
structAndInt == Handler(<<EchoInput, IntType>>, "const", <<Val(Empty)>>)
\* func(input map[string]string) int
mapArg == Handler(<<MapOfString>>, "const", <<Val(Empty)>>)
\* func(input *EchoInput) int
ptrArg == Handler(<<Ptr(EchoInput)>>, "const", <<Val(Empty)>>)
\* func(input []EchoInput) int
sliceArg == Handler(<<Slice(EchoInput)>>, "const", <<Val(Empty)>>)
\* func(input TestInput) int  (testFunc of TestGetSchema)
testFunc == Handler(<<TestInput>>, "const", <<Val(Empty)>>)
\* func(input TestInput2) int  (testFunc2 of TestGetSchema)
testFunc2 == Handler(<<TestInput2>>, "const", <<Val(Empty)>>)
\* func(input SearchInput) int
withOptional == Handler(<<SearchInput>>, "const", <<Val(Empty)>>)
\* func(input struct { Input string }) string
anonymousArg == Handler(<<Struct("", <<Field("Input", StringType, FALSE)>>)>>, "echo", <<>>)
\* func(input struct { Items []F }) int
anonymousWithRef == Handler(<<Struct("", <<Field("Items", Slice(F), FALSE)>>)>>, "const", <<Val(Empty)>>)
\* func(input EchoInput) chan int
returnsChan == Handler(<<EchoInput>>, "const", <<ChanVal>>)
\* A handler returning the given tuple whatever its input.
constFn(rets) == Handler(<<EchoInput>>, "const", rets)
\* func(input EchoInput) {}: a handler that returns nothing.
noReturn == Handler(<<EchoInput>>, "const", <<>>)
\* Func: nil, and Func: 5 (a value that is not a function).
NilFunc == Handler(<<>>, "nil", <<>>)
NotAFunc == Handler(<<>>, "notFunc", <<>>)

\* fnValue.Call: the handler's return values for a decoded argument.
Call(h, arg) ==
    CASE h.Body = "echo" -> <<Val(arg)>>
      [] h.Body = "reverse" -> <<Val(reverse(arg))>>
      [] OTHER -> h.Rets

\* A Function as the caller writes it: the schema field is unexported and nil.
NilSchema == Schema("", "", <<>>, <<>>, "nil", <<>>)
Function(name, description, config, func) ==
    [Name |-> name, Description |-> description, schema |-> NilSchema,
     Config |-> config, Func |-> func]

(***************************************************************************)
(* RegisterFunc                                                            *)
(***************************************************************************)
\* s.Name, the name the service was registered under.
ServiceName == "TestService"

\* A registration that overwrites an existing name instead of refusing it.
RegisterFuncErrNoDuplicateCheck(fns, fn) ==
    LET in == fn.Func.In IN
    IF Len(in) # 1 THEN "numIn"
    ELSE IF in[1].Kind # "struct" THEN "notStruct"
    ELSE IF in[1].Name \notin DOMAIN Reflect(in[1]) THEN "noDefinition"
    ELSE IF ContainsRef(Reflect(in[1])[in[1].Name]) THEN "ref"
    ELSE "nil"

\* A registration that looks at the first argument and accepts further ones.
RegisterFuncErrAnyArity(fns, fn) ==
    LET in == fn.Func.In IN
    IF fn.Name \in DOMAIN fns THEN "duplicate"
    ELSE IF Len(in) < 1 THEN "numIn"
    ELSE IF in[1].Kind # "struct" THEN "notStruct"
    ELSE IF in[1].Name \notin DOMAIN Reflect(in[1]) THEN "noDefinition"
    ELSE IF ContainsRef(Reflect(in[1])[in[1].Name]) THEN "ref"
    ELSE "nil"

\* The error RegisterFunc returns for fn on registry fns ("nil": none), or
\* "panic" when it does not return: fnType.NumIn() on the nil Type of a nil
\* Func is a nil dereference, and on the Type of a value that is not a
\* function reflect panics.
RegisterFuncErr(fns, fn) ==
    LET in == fn.Func.In IN
    IF fn.Name \in DOMAIN fns THEN "duplicate"
    ELSE IF fn.Func.Body \in {"nil", "notFunc"} THEN "panic"
    ELSE IF Len(in) # 1 THEN "numIn"
    ELSE IF in[1].Kind # "struct" THEN "notStruct"
    ELSE IF in[1].Name \notin DOMAIN Reflect(in[1]) THEN "noDefinition"
    ELSE IF ContainsRef(Reflect(in[1])[in[1].Name]) THEN "ref"
    ELSE "nil"

\* The values the error's text is formatted with (fmt.Errorf's arguments).
ErrorArgs(err, fn) ==
    CASE err = "duplicate" -> <<fn.Name, ServiceName>>
      [] err = "numIn" -> <<fn.Name>>
      [] err = "notStruct" -> <<fn.Name>>
      [] err = "noDefinition" -> <<fn.Func.In[1].Name>>
      [] err = "ref" -> <<fn.Name>>
      [] OTHER -> <<>>

\* defs.AdditionalProperties = nil; fn.schema = defs
WithSchema(fn) ==
    LET argType == fn.Func.In[1] IN
    [fn EXCEPT !.schema = [Reflect(argType)[argType.Name] EXCEPT !.additionalProperties = "nil"]]

\* A store that replaces the registry by the one new record.
PutFresh(fns, fn) ==
    [n \in {fn.Name} |-> fn]

\* s.Functions[fn.Name] = fn
Put(fns, fn) ==
    [n \in DOMAIN fns \cup {fn.Name} |-> IF n = fn.Name THEN fn ELSE fns[n]]

Returned(op, name, err) ==
    [op |-> op, name |-> name, err |-> err]

\* What a RegisterFunc(fn) call returned: the error and the values its text names.
ReturnedError(fn, err) ==
    [op |-> "RegisterFunc", name |-> fn.Name, err |-> err, fn |-> fn,
     args |-> ErrorArgs(err, fn)]

\* A registration that stores the record before it looks for a $ref.
RegisterFuncStoreFirst(fn) ==
    LET err == RegisterFuncErr(Functions, fn) IN
    /\ Functions' = IF err \in {"nil", "ref"} THEN Put(Functions, WithSchema(fn)) ELSE Functions
    /\ ret' = ReturnedError(fn, err)
    /\ UNCHANGED <<clusterId, ctx, cancelled, retryAfter, machines>>
    /\ UNCHANGED loopVars
    /\ UNCHANGED <<requests, facadeVars, peer>>

RegisterFunc(fn) ==
    LET err == RegisterFuncErr(Functions, fn) IN
    /\ Functions' = IF err = "nil" THEN Put(Functions, WithSchema(fn)) ELSE Functions
    /\ ret' = ReturnedError(fn, err)
    /\ UNCHANGED <<clusterId, ctx, cancelled, retryAfter, machines>>
    /\ UNCHANGED loopVars
    /\ UNCHANGED <<requests, facadeVars, peer>>


(***************************************************************************)
(* JSON inputs and their decoding into struct{ Input string }.  A call's   *)
(* input is a JSON value: an object with at most one key, a string, a      *)
(* number or null.                                                         *)
(***************************************************************************)
Obj(key, vt, s) == [t |-> "object", key |-> key, vt |-> vt, s |-> s]
EmptyObj == [t |-> "object", key |-> "", vt |-> "", s |-> Empty]
JStr(s) == [t |-> "string", key |-> "", vt |-> "", s |-> s]
JNum == [t |-> "number", key |-> "", vt |-> "", s |-> Empty]
JNull == [t |-> "null", key |-> "", vt |-> "", s |-> Empty]

\* encoding/json matches an object key to a field name ignoring case.
MatchesInputField(key) == key \in {"Input", "input", "INPUT"}

\* A decode that never fills the argument (the handler sees the zero value).
UnmarshalZeroValue(input) ==
    IF input.t = "null" THEN [ok |-> TRUE, arg |-> Empty]
    ELSE IF input.t # "object" THEN [ok |-> FALSE, arg |-> Empty]
    ELSE IF ~MatchesInputField(input.key) THEN [ok |-> TRUE, arg |-> Empty]
    ELSE IF input.vt \in {"string", "null"} THEN [ok |-> TRUE, arg |-> Empty]
    ELSE [ok |-> FALSE, arg |-> Empty]

\* json.Marshal(msg.Input) then json.Unmarshal(inputJson, argPtr.Interface()):
\* ok and the decoded argument's Input field, or a failure.
Unmarshal(input) ==
    IF input.t = "null" THEN [ok |-> TRUE, arg |-> Empty]
    ELSE IF input.t # "object" THEN [ok |-> FALSE, arg |-> Empty]
    ELSE IF ~MatchesInputField(input.key) THEN [ok |-> TRUE, arg |-> Empty]
    ELSE IF input.vt = "string" THEN [ok |-> TRUE, arg |-> input.s]
    ELSE IF input.vt = "null" THEN [ok |-> TRUE, arg |-> Empty]
    ELSE [ok |-> FALSE, arg |-> Empty]

(***************************************************************************)
(* Outcome classification of handleMessage                                 *)
(***************************************************************************)
IsError(v) == v.typ = "error" /\ ~v.isNil

Outcome(resultType, v) ==
    [ResultType |-> resultType, Result |-> [isNil |-> v.isNil, s |-> v.s]]

\* A classification that looks for the error in the second position only.
ClassifyFixedArity(returnValues) ==
    IF Len(returnValues) >= 2 /\ IsError(returnValues[2])
    THEN Outcome("rejection", returnValues[2])
    ELSE Outcome("resolution", returnValues[1])

\* resultType and resultValue: the first non-nil return value of error type
\* makes a rejection carrying its text, otherwise returnValues[0] resolves.
Classify(returnValues) ==
    LET errs == {i \in 1..Len(returnValues) : IsError(returnValues[i])} IN
    IF errs = {}
    THEN Outcome("resolution", returnValues[1])
    ELSE Outcome("rejection", returnValues[CHOOSE i \in errs : \A j \in errs : i <= j])

(***************************************************************************)
(* The client facade (type Inferable): machine ids, the registry of        *)
(* services and the requests the control plane receives.                   *)
(***************************************************************************)
\* Clients made in one run.
MaxClients == 2
\* Ticks of one client's heartbeat ticker.
MaxTicks == 2

Version == "0.1.13"
\* The length New() asks GenerateMachineID for.
MachineIDLength == 8

\* The part of the host and process environment GetMachineID reads; its
\* strings are sequences of bytes.
Environment(hostname, goarch, goos, version) ==
    [hostname |-> hostname, GOARCH |-> goarch, GOOS |-> goos, Version |-> version]
Amd64 == <<97, 109, 100, 54, 52>>
Linux == <<108, 105, 110, 117, 120>>
Go122 == <<103, 111, 49, 46, 50, 50>>
HostA == <<104, 111, 115, 116, 45, 97>>
HostB == <<104, 111, 115, 116, 45, 98>>
Environments == {Environment(HostA, Amd64, Linux, Go122), Environment(HostB, Amd64, Linux, Go122)}

\* sha256.Sum256, abstracted: a fixed function of the bytes (here a two-byte
\* digest of a multiplicative fold); only its being a function matters.
RECURSIVE Fold(_, _)
Fold(h, bytes) ==
    IF bytes = <<>> THEN h ELSE Fold((h * 31 + Head(bytes)) % 65536, Tail(bytes))
Sum256(bytes) == LET h == Fold(7, bytes) IN <<h \div 256, h % 256>>

\* hex.EncodeToString: two lower-case hexadecimal digits per byte, as runes.
HexRune(d) == IF d < 10 THEN 48 + d ELSE 87 + d
RECURSIVE EncodeToString(_)
EncodeToString(hash) ==
    IF hash = <<>> THEN <<>>
    ELSE <<HexRune(Head(hash) \div 16), HexRune(Head(hash) % 16)>> \o EncodeToString(Tail(hash))

\* GetMachineID: the hex digest of hostname + GOARCH + GOOS + runtime.Version().
GetMachineID(e) == EncodeToString(Sum256(e.hostname \o e.GOARCH \o e.GOOS \o e.Version))

\* seed += int64(char), over the runes of the machine id.
RECURSIVE SeedOf(_)
SeedOf(runes) == IF runes = <<>> THEN 0 ELSE Head(runes) + SeedOf(Tail(runes))

charset ==
    <<"a", "b", "c", "d", "e", "f", "g", "h", "i", "j", "k", "l", "m",
      "n", "o", "p", "q", "r", "s", "t", "u", "v", "w", "x", "y", "z">>

\* rand.New(rand.NewSource(seed)) and length draws of charset[r.Intn(len(charset))]:
\* the generator is abstracted to a linear congruential one, a fixed function
\* of its seed as math/rand's is.
RECURSIVE Draws(_, _)
Draws(state, length) ==
    IF length = 0 THEN <<>>
    ELSE LET next == (state * 75 + 74) % 65537
         IN <<charset[(next % Len(charset)) + 1]>> \o Draws(next, length - 1)

\* GenerateMachineID: "go-" and length letters drawn from the seeded generator.
GenerateMachineID(length, e) == <<"g", "o", "-">> \o Draws(SeedOf(GetMachineID(e)), length)

\* InferableOptions; a machine id is a sequence of characters, <<>> when not given.
\* An endpoint is a sequence of characters too, <<>> when not given.
InferableOptions(apiEndpoint, machineID) == [APIEndpoint |-> apiEndpoint, MachineID |-> machineID]
NoMachineID == <<>>
MachineA == <<"m", "-", "a">>
MachineB == <<"m", "-", "b">>
NoEndpoint == <<>>
HTTP == <<"h", "t", "t", "p", ":", "/", "/">>
HTTPS == <<"h", "t", "t", "p", "s", ":", "/", "/">>
DefaultAPIEndpoint ==
    HTTPS \o <<"a", "p", "i", ".", "i", "n", "f", "e", "r", "a", "b", "l", "e", ".", "a", "i">>

\* strings.HasPrefix
HasPrefix(s, prefix) == Len(s) >= Len(prefix) /\ SubSeq(s, 1, Len(prefix)) = prefix

\* A NewClient that takes any endpoint.
NewClientErrAnyEndpoint(endpoint) == "nil"

\* The error NewClient returns ("nil": none): it refuses an endpoint that
\* starts with neither http:// nor https://.
NewClientErr(endpoint) ==
    IF ~HasPrefix(endpoint, HTTP) /\ ~HasPrefix(endpoint, HTTPS) THEN "invalid URL" ELSE "nil"

\* if options.APIEndpoint == "" { options.APIEndpoint = DefaultAPIEndpoint }
EndpointOf(options) ==
    IF options.APIEndpoint = NoEndpoint THEN DefaultAPIEndpoint ELSE options.APIEndpoint

\* A New() that derives the machine id whatever the options say.
NewMachineIDDerivedOnly(options, e) == GenerateMachineID(MachineIDLength, e)

\* machineID := options.MachineID; if machineID == "" { machineID = GenerateMachineID(8) }
NewMachineID(options, e) ==
    IF options.MachineID = NoMachineID THEN GenerateMachineID(MachineIDLength, e)
    ELSE options.MachineID

\* The Inferable value New() builds: an empty registry, no Default yet.
\* services maps a name to the service object registered under it (objects
\* are numbered in the order RegisterService made them; created lists their
\* names), Default is the object the Default field points to (0: nil),
\* returned tells whether New() has returned the client to its caller and
\* options keeps the options New() was called with.
NoServices == [n \in {} |-> 0]
NewInferable(options, e) ==
    [options |-> options,
     apiEndpoint |-> EndpointOf(options),
     machineID |-> NewMachineID(options, e),
     services |-> NoServices,
     created |-> <<>>,
     Default |-> 0,
     returned |-> FALSE]

\* A RegisterService that does not look the name up first.
RegisterServiceErrNoCheck(i, serviceName) == "nil"

\* The error RegisterService returns ("nil": none).
RegisterServiceErr(i, serviceName) ==
    IF serviceName \in DOMAIN i.services THEN "exists" ELSE "nil"

\* service := &service{Name: serviceName, ...}; i.functionRegistry.services[serviceName] = service
WithService(i, serviceName) ==
    LET service == Len(i.created) + 1 IN
    [i EXCEPT !.created = Append(@, serviceName),
              !.services = (serviceName :> service) @@ @]

\* New() without the registration of the default service.
RegisterDefaultNot(i) == [i EXCEPT !.returned = TRUE]

\* inferable.Default, err = inferable.RegisterService("default"); return inferable, nil
RegisterDefault(i) ==
    LET registered == WithService(i, "default") IN
    [registered EXCEPT !.Default = registered.services["default"], !.returned = TRUE]

\* The state of a heartbeat task: about to call pingCluster ("ping"), its
\* request on the way ("send") or waiting for the ticker ("wait"); body is
\* the services list of the request, sent counts the requests made, ticks the
\* ticks consumed and fails the failed requests in a row.
Heartbeat(pc_, body, sent, ticks, fails) ==
    [pc |-> pc_, body |-> body, sent |-> sent, ticks |-> ticks, fails |-> fails]
HeartbeatStarted == Heartbeat("ping", {}, 0, 0, 0)

\* The headers registerMachine, poll and persistJobResult prepare.
MachineHeaders(i) ==
    ("Authorization" :> "Bearer") @@ ("X-Machine-ID" :> i.machineID)
        @@ ("X-Machine-SDK-Version" :> Version) @@ ("X-Machine-SDK-Language" :> "go")
NoHeaders == [n \in {} |-> ""]
ContentTypeJSON == "Content-Type" :> "application/json"

\* s.inferable: the client whose RegisterService made the service.
Inferable == Head(clients)

\* FetchDataOptions: Body is "" or stands for a JSON text.
FetchDataOptions(path, method, headers, body) ==
    [Path |-> path, Method |-> method, Headers |-> headers, Body |-> body]
RegisterMachineOptions == FetchDataOptions("/machines", "POST", MachineHeaders(Inferable), "json")
PollOptions == FetchDataOptions("/clusters/calls", "GET", MachineHeaders(Inferable), "")
PersistOptions ==
    FetchDataOptions("/clusters/calls/result", "POST", MachineHeaders(Inferable), "json")
PingOptions == FetchDataOptions("/v2/ping", "POST", ContentTypeJSON, "json")
LiveOptions == FetchDataOptions("/live", "GET", NoHeaders, "")

\* The request client.FetchData sends for the options of client i: the
\* Authorization header, then the custom headers, then Content-Type when there
\* is a body.  from is the machine id of the client that sends it.
FetchData(i, options) ==
    LET withBody == IF options.Body # "" THEN ContentTypeJSON ELSE NoHeaders
    IN [Path |-> options.Path, Method |-> options.Method,
        Headers |-> withBody @@ options.Headers @@ ("Authorization" :> "Bearer"),
        from |-> i.machineID]

(***************************************************************************)
(* The registration handshake, Start and Stop                              *)
(***************************************************************************)
ClusterIds == {"cluster-1"}
\* The retry interval (seconds) the control plane suggests with its answer.
SuggestedIntervals == {5}
\* The control plane's answers to POST /machines: a failure (transport error
\* or status >= 400), a body that does not parse, or a body with a cluster
\* id, the answer carrying a suggested retry interval.
Response(body, interval) == [body |-> body, retryAfter |-> interval]
HandshakeResponses ==
    {Response("error", 0), Response("garbage", 0)}
        \cup {Response(c, n) : c \in ClusterIds, n \in SuggestedIntervals}

\* A handshake that is sent whether or not functions are registered.
RegisterMachineErrNoEmptyCheck(fns, resp) ==
    IF resp.body = "error" THEN "handshake"
    ELSE IF resp.body = "garbage" THEN "parse"
    ELSE "nil"

\* The error registerMachine returns ("nil": none).
RegisterMachineErr(fns, resp) ==
    IF DOMAIN fns = {} THEN "noFunctions"
    ELSE IF resp.body = "error" THEN "handshake"
    ELSE IF resp.body = "garbage" THEN "parse"
    ELSE "nil"

\* json.Marshal(fn.schema), kept as a string: the JSON text of the schema.
Marshal(v) == [json |-> v]

\* The functions of registerMachine's payload: the name, the description and
\* the schema text of every registered function (the code ranges over the
\* map, so each function appears once, in no particular order).
PayloadFunctions(fns) ==
    {[name |-> fns[n].Name, description |-> fns[n].Description,
      schema |-> Marshal(fns[n].schema)] : n \in DOMAIN fns}

\* A POST /machines request as the control plane saw it: the functions of its
\* payload, the answer given, and the poll loop the Start() then made (0: none).
Handshake(functions, resp, loop) == [functions |-> functions, response |-> resp, loop |-> loop]

\* The waits of a loop that has not slept yet (one that has: <<seconds>>).
NotYet == <<>>

\* A Start() that makes the context and the loop before the handshake.
StartContextFirst(resp, maxStarts) ==
    LET err == RegisterMachineErr(Functions, resp)
        l == ctx + 1
    IN
    /\ Len(machines) < maxStarts
    /\ ret' = Returned("Start", "", err)
    /\ machines' = IF err = "noFunctions" THEN machines
                   ELSE Append(machines, Handshake(PayloadFunctions(Functions), resp, l))
    /\ IF err # "noFunctions"
       THEN /\ clusterId' = IF err = "nil" THEN resp.body ELSE clusterId
            /\ ctx' = l
            /\ retryAfter' = 0
            /\ pc' = [pc EXCEPT ![l] = "sleep"]
            /\ failureCount' = [failureCount EXCEPT ![l] = DefaultRetryAfter]
            /\ waited' = [waited EXCEPT ![l] = NotYet]
       ELSE UNCHANGED <<clusterId, ctx, retryAfter, pc, failureCount, waited>>
    /\ UNCHANGED <<Functions, cancelled, parsed, idx, errors, pollErr, calls, results,
                   failedCycles, lastFailed, sawConsecutive, selfStopped>>
    /\ requests' = IF err = "noFunctions" THEN requests
                   ELSE requests \cup {FetchData(Inferable, RegisterMachineOptions)}
    /\ UNCHANGED <<facadeVars, peer>>

\* Start(): registerMachine, then a fresh context and a new poll loop.
\* maxStarts bounds the handshakes the control plane receives.
Start(resp, maxStarts) ==
    LET err == RegisterMachineErr(Functions, resp)
        l == ctx + 1
    IN
    /\ Len(machines) < maxStarts
    /\ ret' = Returned("Start", "", err)
    /\ machines' = IF err = "noFunctions" THEN machines
                   ELSE Append(machines,
                               Handshake(PayloadFunctions(Functions), resp, IF err = "nil" THEN l ELSE 0))
    /\ IF err = "nil"
       THEN /\ clusterId' = resp.body
            /\ ctx' = l
            /\ retryAfter' = 0
            /\ pc' = [pc EXCEPT ![l] = "sleep"]
            /\ failureCount' = [failureCount EXCEPT ![l] = DefaultRetryAfter]
            /\ waited' = [waited EXCEPT ![l] = NotYet]
       ELSE UNCHANGED <<clusterId, ctx, retryAfter, pc, failureCount, waited>>
    /\ UNCHANGED <<Functions, cancelled, parsed, idx, errors, pollErr, calls, results,
                   failedCycles, lastFailed, sawConsecutive, selfStopped>>
    /\ requests' = IF err = "noFunctions" THEN requests
                   ELSE requests \cup {FetchData(Inferable, RegisterMachineOptions)}
    /\ UNCHANGED <<facadeVars, peer>>

\* A Stop() that cancels the context of every service of the client.
StopEveryService ==
    /\ cancelled' = IF ctx # 0 THEN cancelled \cup {ctx} ELSE cancelled
    /\ peer' = [peer EXCEPT !.cancelled = IF peer.ctx # 0 THEN @ \cup {peer.ctx} ELSE @]
    /\ UNCHANGED <<Functions, clusterId, ctx, retryAfter, ret, machines>>
    /\ UNCHANGED loopVars
    /\ UNCHANGED <<requests, facadeVars>>

\* A Stop() without the nil check: s.cancel() on the nil func of a service
\* that was never started is a nil dereference (Stop does not return).
StopUnguarded ==
    /\ cancelled' = IF ctx # 0 THEN cancelled \cup {ctx} ELSE cancelled
    /\ ret' = IF ctx # 0 THEN ret ELSE Returned("Stop", "", "panic")
    /\ UNCHANGED <<Functions, clusterId, ctx, retryAfter, machines>>
    /\ UNCHANGED loopVars
    /\ UNCHANGED <<requests, facadeVars, peer>>

\* isPolling(): return s.cancel != nil
isPolling == ctx # 0

\* Stop(): cancel the current context, if there is one (Stop returns nothing).
Stop ==
    /\ cancelled' = IF ctx # 0 THEN cancelled \cup {ctx} ELSE cancelled
    /\ UNCHANGED <<Functions, clusterId, ctx, retryAfter, ret, machines>>
    /\ UNCHANGED loopVars
    /\ UNCHANGED <<requests, facadeVars, peer>>


(***************************************************************************)
(* The poll loop: one goroutine per successful Start().                    *)
(*   for { time.Sleep(..); select { case <-s.ctx.Done(): return            *)
(*                                  default: err := s.poll(); ... } }      *)
(***************************************************************************)
NoMessages == <<>>

\* The values of s.ctx (and s.cancel) a read by loop l may observe: the one
\* written by the Start() that created the loop, or one written since by a
\* later Start() (an unsynchronised write: the read races with it).
CtxSeenBy(l) == l..ctx

\* time.Sleep(time.Duration(s.retryAfter) * time.Second)
Sleep(l) ==
    /\ pc[l] = "sleep"
    /\ waited' = [waited EXCEPT ![l] = <<IF retryAfter > 0 THEN retryAfter ELSE 0>>]
    /\ pc' = [pc EXCEPT ![l] = "select"]
    /\ UNCHANGED svcVars
    /\ UNCHANGED <<calls, failureCount, parsed, idx, errors, pollErr, results,
                   failedCycles, lastFailed, sawConsecutive, selfStopped>>
    /\ UNCHANGED <<requests, facadeVars, peer>>

\* select { case <-s.ctx.Done(): return; default: s.poll() ... }
Select(l) ==
    /\ pc[l] = "select"
    /\ \E c \in CtxSeenBy(l) :
          pc' = [pc EXCEPT ![l] = IF c \in cancelled THEN "done" ELSE "fetch"]
    /\ UNCHANGED svcVars
    /\ UNCHANGED <<waited, calls, failureCount, parsed, idx, errors, pollErr, results,
                   failedCycles, lastFailed, sawConsecutive, selfStopped>>
    /\ UNCHANGED <<requests, facadeVars, peer>>

\* A Retry-After header value: a decimal integer, or text strconv.Atoi refuses.
IntValue(n) == [int |-> TRUE, n |-> n]
NotAnInt == [int |-> FALSE, n |-> 0]

\* for _, v := range retryAfter { if i, err := strconv.Atoi(v); err == nil { s.retryAfter = i } }
RECURSIVE ApplyRetryAfter(_, _)
ApplyRetryAfter(current, values) ==
    IF values = <<>> THEN current
    ELSE ApplyRetryAfter(IF Head(values).int THEN Head(values).n ELSE current,
                         Tail(values))

\* poll(): the fetch fails (transport error or status >= 400).
\* cap bounds the cycles of the loop that return an error.
FetchFail(l, cap) ==
    /\ pc[l] = "fetch"
    /\ failedCycles[l] < cap
    /\ pollErr' = [pollErr EXCEPT ![l] = "fetch"]
    /\ pc' = [pc EXCEPT ![l] = "after"]
    /\ UNCHANGED svcVars
    /\ UNCHANGED <<waited, calls, failureCount, parsed, idx, errors, results,
                   failedCycles, lastFailed, sawConsecutive, selfStopped>>
    /\ requests' = requests \cup {FetchData(Inferable, PollOptions)}
    /\ UNCHANGED <<facadeVars, peer>>

\* poll(): the fetch succeeds; the Retry-After header (header: its values,
\* <<>> when absent) sets the backoff; the body does not parse.
FetchGarbage(l, header, cap) ==
    /\ pc[l] = "fetch"
    /\ failedCycles[l] < cap
    /\ retryAfter' = ApplyRetryAfter(retryAfter, header)
    /\ pollErr' = [pollErr EXCEPT ![l] = "parse"]
    /\ pc' = [pc EXCEPT ![l] = "after"]
    /\ UNCHANGED <<Functions, clusterId, ctx, cancelled, ret, machines>>
    /\ UNCHANGED <<waited, calls, failureCount, parsed, idx, errors, results,
                   failedCycles, lastFailed, sawConsecutive, selfStopped>>
    /\ requests' = requests \cup {FetchData(Inferable, PollOptions)}
    /\ UNCHANGED <<facadeVars, peer>>

\* poll(): the fetch succeeds and the body parses to the batch.
FetchOk(l, header, batch, cap) ==
    /\ pc[l] = "fetch"
    /\ batch # NoMessages => failedCycles[l] < cap
    /\ retryAfter' = ApplyRetryAfter(retryAfter, header)
    /\ parsed' = [parsed EXCEPT ![l] = batch]
    /\ idx' = [idx EXCEPT ![l] = 1]
    /\ pc' = [pc EXCEPT ![l] = "handle"]
    /\ UNCHANGED <<Functions, clusterId, ctx, cancelled, ret, machines>>
    /\ UNCHANGED <<waited, calls, failureCount, errors, pollErr, results,
                   failedCycles, lastFailed, sawConsecutive, selfStopped>>
    /\ requests' = requests \cup {FetchData(Inferable, PollOptions)}
    /\ UNCHANGED <<facadeVars, peer>>

\* persistJobResult's json.Marshal(result): the result value is the error's
\* text (a string) or returnValues[0], which encoding/json refuses when it is
\* of a type it does not support (a chan); nothing is sent then.
Marshals(returnValues) ==
    Classify(returnValues).ResultType = "rejection" \/ returnValues[1].typ # "chan"

\* The persist-result request of a message: POST /clusters/../calls/{id}/result
PersistRequest(id, outcome, ok) ==
    [Id |-> id, Result |-> outcome.Result, ResultType |-> outcome.ResultType, ok |-> ok]

\* A batch loop that stops handling at the first message that fails.
HandleMessageAbortBatch(l, persistOk) ==
    LET msg == parsed[l][idx[l]]
        found == msg.Function \in DOMAIN Functions
        decoded == Unmarshal(msg.Input)
    IN
    /\ pc[l] = "handle"
    /\ idx[l] <= Len(parsed[l])
    /\ IF ~found
       THEN /\ errors' = [errors EXCEPT ![l] = Append(@, "function not found")]
            /\ idx' = [idx EXCEPT ![l] = Len(parsed[l]) + 1]
            /\ UNCHANGED <<results, calls>>
       ELSE IF ~decoded.ok
       THEN /\ errors' = [errors EXCEPT ![l] = Append(@, "failed to unmarshal input")]
            /\ idx' = [idx EXCEPT ![l] = Len(parsed[l]) + 1]
            /\ UNCHANGED <<results, calls>>
       ELSE LET returnValues == Call(Functions[msg.Function].Func, decoded.arg)
                sent == Marshals(returnValues)
            IN
            /\ calls' = [calls EXCEPT ![l] = Append(@, msg.Id)]
            /\ results' = [results EXCEPT ![l] =
                  IF sent THEN Append(@, PersistRequest(msg.Id, Classify(returnValues), persistOk))
                  ELSE @]
            /\ errors' = [errors EXCEPT ![l] =
                  IF sent /\ persistOk THEN @ ELSE Append(@, "failed to persist job result")]
            /\ idx' = [idx EXCEPT ![l] = IF sent /\ persistOk THEN @ + 1 ELSE Len(parsed[l]) + 1]
    /\ UNCHANGED svcVars
    /\ UNCHANGED <<waited, pc, failureCount, parsed, pollErr,
                   failedCycles, lastFailed, sawConsecutive, selfStopped>>
    /\ requests' = IF Len(results'[l]) > Len(results[l])
                   THEN requests \cup {FetchData(Inferable, PersistOptions)}
                   ELSE requests
    /\ UNCHANGED <<facadeVars, peer>>

\* A dispatch that calls the handler with the zero value when the input does
\* not decode.
HandleMessageZeroValue(l, persistOk) ==
    LET msg == parsed[l][idx[l]]
        found == msg.Function \in DOMAIN Functions
    IN
    /\ pc[l] = "handle"
    /\ idx[l] <= Len(parsed[l])
    /\ IF ~found
       THEN /\ errors' = [errors EXCEPT ![l] = Append(@, "function not found")]
            /\ UNCHANGED <<results, calls>>
       ELSE LET returnValues == Call(Functions[msg.Function].Func, Unmarshal(msg.Input).arg)
                sent == Marshals(returnValues)
            IN
            /\ calls' = [calls EXCEPT ![l] = Append(@, msg.Id)]
            /\ results' = [results EXCEPT ![l] =
                  IF sent THEN Append(@, PersistRequest(msg.Id, Classify(returnValues), persistOk))
                  ELSE @]
            /\ errors' = [errors EXCEPT ![l] =
                  IF sent /\ persistOk THEN @ ELSE Append(@, "failed to persist job result")]
    /\ idx' = [idx EXCEPT ![l] = @ + 1]
    /\ UNCHANGED svcVars
    /\ UNCHANGED <<waited, pc, failureCount, parsed, pollErr,
                   failedCycles, lastFailed, sawConsecutive, selfStopped>>
    /\ requests' = IF Len(results'[l]) > Len(results[l])
                   THEN requests \cup {FetchData(Inferable, PersistOptions)}
                   ELSE requests
    /\ UNCHANGED <<facadeVars, peer>>

\* A batch loop that takes the messages of the batch last to first.
HandleMessageLastFirst(l, persistOk) ==
    LET msg == parsed[l][Len(parsed[l]) + 1 - idx[l]]
        found == msg.Function \in DOMAIN Functions
        decoded == Unmarshal(msg.Input)
        called == found /\ decoded.ok
        panics == called /\ Call(Functions[msg.Function].Func, decoded.arg) = <<>>
    IN
    /\ pc[l] = "handle"
    /\ idx[l] <= Len(parsed[l])
    /\ IF ~found
       THEN /\ errors' = [errors EXCEPT ![l] = Append(@, "function not found")]
            /\ UNCHANGED <<results, calls>>
       ELSE IF ~decoded.ok
       THEN /\ errors' = [errors EXCEPT ![l] = Append(@, "failed to unmarshal input")]
            /\ UNCHANGED <<results, calls>>
       ELSE IF panics
       THEN /\ calls' = [calls EXCEPT ![l] = Append(@, msg.Id)]
            /\ UNCHANGED <<results, errors>>
       ELSE LET returnValues == Call(Functions[msg.Function].Func, decoded.arg)
                sent == Marshals(returnValues)
            IN
            /\ calls' = [calls EXCEPT ![l] = Append(@, msg.Id)]
            /\ results' = [results EXCEPT ![l] =
                  IF sent THEN Append(@, PersistRequest(msg.Id, Classify(returnValues), persistOk))
                  ELSE @]
            /\ errors' = [errors EXCEPT ![l] =
                  IF sent /\ persistOk THEN @ ELSE Append(@, "failed to persist job result")]
    /\ idx' = [idx EXCEPT ![l] = IF panics THEN @ ELSE @ + 1]
    /\ pc' = [pc EXCEPT ![l] = IF panics THEN "panic" ELSE @]
    /\ UNCHANGED svcVars
    /\ UNCHANGED <<waited, failureCount, parsed, pollErr,
                   failedCycles, lastFailed, sawConsecutive, selfStopped>>
    /\ requests' = IF Len(results'[l]) > Len(results[l])
                   THEN requests \cup {FetchData(Inferable, PersistOptions)}
                   ELSE requests
    /\ UNCHANGED <<facadeVars, peer>>

\* poll()'s loop body: err := s.handleMessage(msg); a failure is appended to
\* errors.  handleMessage looks the function up, decodes the input, calls the
\* handler, classifies its return values and persists the result (persistOk:
\* whether the persist request succeeds).
\* returnValues[0] of a handler that returns nothing is an index out of range:
\* the loop's goroutine panics.
HandleMessage(l, persistOk) ==
    LET msg == parsed[l][idx[l]]
        found == msg.Function \in DOMAIN Functions
        decoded == Unmarshal(msg.Input)
        called == found /\ decoded.ok
        panics == called /\ Call(Functions[msg.Function].Func, decoded.arg) = <<>>
    IN
    /\ pc[l] = "handle"
    /\ idx[l] <= Len(parsed[l])
    /\ IF ~found
       THEN /\ errors' = [errors EXCEPT ![l] = Append(@, "function not found")]
            /\ UNCHANGED <<results, calls>>
       ELSE IF ~decoded.ok
       THEN /\ errors' = [errors EXCEPT ![l] = Append(@, "failed to unmarshal input")]
            /\ UNCHANGED <<results, calls>>
       ELSE IF panics
       THEN /\ calls' = [calls EXCEPT ![l] = Append(@, msg.Id)]
            /\ UNCHANGED <<results, errors>>
       ELSE LET returnValues == Call(Functions[msg.Function].Func, decoded.arg)
                sent == Marshals(returnValues)
            IN
            /\ calls' = [calls EXCEPT ![l] = Append(@, msg.Id)]
            /\ results' = [results EXCEPT ![l] =
                  IF sent THEN Append(@, PersistRequest(msg.Id, Classify(returnValues), persistOk))
                  ELSE @]
            /\ errors' = [errors EXCEPT ![l] =
                  IF sent /\ persistOk THEN @ ELSE Append(@, "failed to persist job result")]
    /\ idx' = [idx EXCEPT ![l] = IF panics THEN @ ELSE @ + 1]
    /\ pc' = [pc EXCEPT ![l] = IF panics THEN "panic" ELSE @]
    /\ UNCHANGED svcVars
    /\ UNCHANGED <<waited, failureCount, parsed, pollErr,
                   failedCycles, lastFailed, sawConsecutive, selfStopped>>
    /\ requests' = IF Len(results'[l]) > Len(results[l])
                   THEN requests \cup {FetchData(Inferable, PersistOptions)}
                   ELSE requests
    /\ UNCHANGED <<facadeVars, peer>>

\* poll() returns after the batch: the aggregate error if any message failed.
PollReturn(l) ==
    /\ pc[l] = "handle"
    /\ idx[l] > Len(parsed[l])
    /\ pollErr' = [pollErr EXCEPT ![l] = IF Len(errors[l]) > 0 THEN "messages" ELSE "nil"]
    /\ pc' = [pc EXCEPT ![l] = "after"]
    /\ UNCHANGED svcVars
    /\ UNCHANGED <<waited, calls, failureCount, parsed, idx, errors, results,
                   failedCycles, lastFailed, sawConsecutive, selfStopped>>
    /\ UNCHANGED <<requests, facadeVars, peer>>

\* if err != nil { failureCount++; if failureCount > MaxConsecutivePollFailures { s.Stop() } }
\* and the loop goes round.  s.Stop() cancels the context the loop reads in s.cancel.
AfterPoll(l) ==
    LET failed == pollErr[l] # "nil"
        count == IF failed THEN failureCount[l] + 1 ELSE failureCount[l]
        stops == failed /\ count > MaxConsecutivePollFailures
    IN
    /\ pc[l] = "after"
    /\ failureCount' = [failureCount EXCEPT ![l] = count]
    /\ IF stops
       THEN \E c \in CtxSeenBy(l) : cancelled' = cancelled \cup {c}
       ELSE UNCHANGED cancelled
    /\ selfStopped' = [selfStopped EXCEPT ![l] = @ \/ stops]
    /\ failedCycles' = [failedCycles EXCEPT ![l] = IF failed THEN @ + 1 ELSE @]
    /\ lastFailed' = [lastFailed EXCEPT ![l] = failed]
    /\ sawConsecutive' = [sawConsecutive EXCEPT ![l] = @ \/ (failed /\ lastFailed[l])]
    /\ pc' = [pc EXCEPT ![l] = "sleep"]
    /\ parsed' = [parsed EXCEPT ![l] = NoMessages]
    /\ idx' = [idx EXCEPT ![l] = 1]
    /\ errors' = [errors EXCEPT ![l] = <<>>]
    /\ results' = [results EXCEPT ![l] = <<>>]
    /\ calls' = [calls EXCEPT ![l] = <<>>]
    /\ pollErr' = [pollErr EXCEPT ![l] = "nil"]
    /\ UNCHANGED <<Functions, clusterId, ctx, retryAfter, ret, machines, waited>>
    /\ UNCHANGED <<requests, facadeVars, peer>>


(***************************************************************************)
(* The client's other service, the one New() registered as "default": an   *)
(* object of the same type with fields of its own.  Its poll loop is taken *)
(* a cycle at a time, and its fetches fail or return the empty batch.      *)
(***************************************************************************)
\* &service{Name: serviceName, Functions: make(map[string]Function), inferable: i}
\* pc, failureCount and failed describe the loop its Start() makes.
PeerMade ==
    [Functions |-> [n \in {} |-> 0], clusterId |-> "", ctx |-> 0, cancelled |-> {},
     retryAfter |-> 0, pc |-> "idle", failureCount |-> 0, failed |-> 0]

\* RegisterFunc(fn) on the other service.
PeerRegisterFunc(fn) ==
    /\ RegisterFuncErr(peer.Functions, fn) # "panic"
    /\ peer' = [peer EXCEPT !.Functions =
                    IF RegisterFuncErr(@, fn) = "nil" THEN Put(@, WithSchema(fn)) ELSE @]
    /\ UNCHANGED <<svcVars, loopVars, requests, facadeVars>>

\* Start() on the other service, which has no loop yet.
PeerStart(resp) ==
    LET err == RegisterMachineErr(peer.Functions, resp) IN
    /\ peer.pc = "idle"
    /\ peer' = IF err = "nil"
               THEN [peer EXCEPT !.clusterId = resp.body, !.ctx = @ + 1, !.retryAfter = 0,
                                 !.pc = "run", !.failureCount = DefaultRetryAfter]
               ELSE peer
    /\ requests' = IF err = "noFunctions" THEN requests
                   ELSE requests \cup {FetchData(Inferable, RegisterMachineOptions)}
    /\ UNCHANGED <<svcVars, loopVars, facadeVars>>

\* Stop() on the other service.
PeerStop ==
    /\ peer' = [peer EXCEPT !.cancelled = IF peer.ctx # 0 THEN @ \cup {peer.ctx} ELSE @]
    /\ UNCHANGED <<svcVars, loopVars, requests, facadeVars>>

\* One round of the other service's loop: the sleep, the cancellation check
\* and, when the context is not cancelled, poll(): the fetch fails (ok is
\* FALSE) or returns the empty batch with the given Retry-After header.
\* cap bounds the rounds that fail.
PeerCycle(ok, header, cap) ==
    LET isCancelled == peer.ctx \in peer.cancelled
        count == peer.failureCount + 1
    IN
    /\ peer.pc = "run"
    /\ (~isCancelled /\ ~ok) => peer.failed < cap
    /\ peer' = IF isCancelled THEN [peer EXCEPT !.pc = "done"]
               ELSE IF ok THEN [peer EXCEPT !.retryAfter = ApplyRetryAfter(@, header)]
               ELSE [peer EXCEPT !.failureCount = count, !.failed = @ + 1,
                                 !.cancelled = IF count > MaxConsecutivePollFailures
                                               THEN @ \cup {peer.ctx} ELSE @]
    /\ requests' = IF isCancelled THEN requests
                   ELSE requests \cup {FetchData(Inferable, PollOptions)}
    /\ UNCHANGED <<svcVars, loopVars, facadeVars>>

(***************************************************************************)
(* Initial state: a client made by New() and, on it, a service just made   *)
(* by RegisterService(ServiceName), nothing registered, never started.     *)
(***************************************************************************)
NoFunctions == [n \in {} |-> 0]
NoReturn == [op |-> "none", name |-> "", err |-> "nil"]

LoopsIdle ==
    /\ pc = [l \in Loops |-> "idle"]
    /\ failureCount = [l \in Loops |-> 0]
    /\ parsed = [l \in Loops |-> NoMessages]
    /\ idx = [l \in Loops |-> 1]
    /\ errors = [l \in Loops |-> <<>>]
    /\ pollErr = [l \in Loops |-> "nil"]
    /\ waited = [l \in Loops |-> NotYet]
    /\ calls = [l \in Loops |-> <<>>]
    /\ results = [l \in Loops |-> <<>>]
    /\ failedCycles = [l \in Loops |-> 0]
    /\ lastFailed = [l \in Loops |-> FALSE]
    /\ sawConsecutive = [l \in Loops |-> FALSE]
    /\ selfStopped = [l \in Loops |-> FALSE]

NoFacadeReturn == [op |-> "none", client |-> 0, name |-> "", err |-> "nil"]
DefaultEnvironment == Environment(HostA, Amd64, Linux, Go122)
DefaultOptions == InferableOptions(NoEndpoint, NoMachineID)

\* New(options) in environment e, then RegisterService(ServiceName); the
\* client's heartbeat task has not run yet.
ClientMade(e, options) ==
    /\ env = e
    /\ clients = <<WithService(RegisterDefault(NewInferable(options, e)), ServiceName)>>
    /\ hb = <<HeartbeatStarted>>
    /\ facadeRet = NoFacadeReturn

ServiceMade ==
    /\ Functions = NoFunctions
    /\ clusterId = ""
    /\ ctx = 0
    /\ cancelled = {}
    /\ retryAfter = 0
    /\ ret = NoReturn
    /\ machines = <<>>
    /\ requests = {}
    /\ peer = PeerMade
    /\ LoopsIdle

Init == ServiceMade /\ ClientMade(DefaultEnvironment, DefaultOptions)

(***************************************************************************)
(* Inputs                                                                  *)
(***************************************************************************)
Message(id, function, input) == [Id |-> id, Function |-> function, Input |-> input]

\* Every batch of at most n messages of the given kinds (function, input);
\* the control plane numbers the calls of a batch.
Batches(n, kinds) ==
    UNION {{[i \in 1..k |-> Message(i, b[i][1], b[i][2])] : b \in [1..k -> kinds]} : k \in 0..n}

InputHello == Obj("Input", "string", Hello)

\* Calls to the registered echo function, to an unregistered function and
\* with an input that does not decode.
LifecycleKinds == {<<"echo", InputHello>>, <<"ghost", InputHello>>, <<"echo", JNum>>}
LifecycleFns == {Function("echo", "Echoes the input string", "nil", echo)}
NoHeader == <<>>
LifecycleHeaders == {NoHeader, <<IntValue(1)>>, <<NotAnInt>>}

\* The next-state relation of the service's lifecycle, for the given inputs.
Lifecycle(fns, maxStarts, cap, batches, headers) ==
    \/ \E fn \in fns : RegisterFunc(fn)
    \/ \E resp \in HandshakeResponses : Start(resp, maxStarts)
    \/ Stop
    \/ \E l \in Loops : Sleep(l)
    \/ \E l \in Loops : Select(l)
    \/ \E l \in Loops : FetchFail(l, cap)
    \/ \E l \in Loops, header \in headers : FetchGarbage(l, header, cap)
    \/ \E l \in Loops, header \in headers, batch \in batches : FetchOk(l, header, batch, cap)
    \/ \E l \in Loops, persistOk \in BOOLEAN : HandleMessage(l, persistOk)
    \/ \E l \in Loops : PollReturn(l)
    \/ \E l \in Loops : AfterPoll(l)

\* The lifecycle: Start() and Stop() in any order, up to MaxStarts loops.
Next == Lifecycle(LifecycleFns, MaxStarts, MaxFailedCycles,
                  Batches(MaxBatch, LifecycleKinds), LifecycleHeaders)

Spec == Init /\ [][Next]_vars


(***************************************************************************)
(* Registration alone: RegisterFunc calls with every kind of handler.      *)
(***************************************************************************)
FuncNames == {"TestFunc", "InvalidFunc"}
Descriptions == {"", "Test function"}
Configs == {"nil", "cache"}
RegisterHandlers ==
    {echo, reverseFn, failing, twoArgs, nonStruct, withRef, zeroArgs, structAndInt, mapArg,
     ptrArg, sliceArg, testFunc, testFunc2, withOptional, anonymousArg, anonymousWithRef}
\* echo and reverse come with every description and config, the others bare.
RegisterInputs ==
    {Function(n, d, c, h) :
        n \in FuncNames, d \in Descriptions, c \in Configs, h \in {echo, reverseFn}}
        \cup {Function(n, "", "nil", h) : n \in FuncNames, h \in RegisterHandlers}

RegisterNext == \E fn \in RegisterInputs : RegisterFunc(fn)

SpecRegister == Init /\ [][RegisterNext]_vars

(***************************************************************************)
(* Dispatch alone: the loop has fetched one call for a service with one    *)
(* registered function; the handler and the call's input are drawn.        *)
(***************************************************************************)
ReturnValues == {Val(Hello), NilVal, Err(Boom), Err(Bang), NilErr}
ReturnTuples == UNION {[1..k -> ReturnValues] : k \in 1..MaxReturns}
DispatchHandlers == {echo, reverseFn} \cup {constFn(t) : t \in ReturnTuples}
DispatchInputs ==
    {InputHello, Obj("Input", "string", HelloInferable), Obj("input", "string", Hello),
     Obj("other", "string", Hello), Obj("Input", "number", Empty),
     Obj("Input", "null", Empty), EmptyObj, JNull, JNum, JStr(Hello)}

DispatchInit ==
    /\ \E h \in DispatchHandlers :
          Functions = Put(NoFunctions, WithSchema(Function("fn", "", "nil", h)))
    /\ \E resp \in HandshakeResponses :
          /\ resp.body \in ClusterIds
          /\ clusterId = resp.body
          /\ machines = <<Handshake(PayloadFunctions(Functions), resp, 1)>>
    /\ ctx = 1
    /\ cancelled = {}
    /\ retryAfter = 0
    /\ ret = [op |-> "Start", name |-> "", err |-> "nil"]
    /\ pc = [l \in Loops |-> IF l = 1 THEN "handle" ELSE "idle"]
    /\ failureCount = [l \in Loops |-> IF l = 1 THEN DefaultRetryAfter ELSE 0]
    /\ \E f \in {"fn", "ghost"}, in \in DispatchInputs :
          parsed = [l \in Loops |-> IF l = 1 THEN <<Message(1, f, in)>> ELSE NoMessages]
    /\ idx = [l \in Loops |-> 1]
    /\ errors = [l \in Loops |-> <<>>]
    /\ pollErr = [l \in Loops |-> "nil"]
    /\ waited = [l \in Loops |-> IF l = 1 THEN <<0>> ELSE NotYet]
    /\ calls = [l \in Loops |-> <<>>]
    /\ results = [l \in Loops |-> <<>>]
    /\ failedCycles = [l \in Loops |-> 0]
    /\ lastFailed = [l \in Loops |-> FALSE]
    /\ sawConsecutive = [l \in Loops |-> FALSE]
    /\ selfStopped = [l \in Loops |-> FALSE]
    /\ ClientMade(DefaultEnvironment, DefaultOptions)
    /\ requests = {FetchData(Inferable, RegisterMachineOptions), FetchData(Inferable, PollOptions)}
    /\ peer = PeerMade

DispatchNext ==
    \/ \E l \in Loops, persistOk \in BOOLEAN : HandleMessage(l, persistOk)
    \/ \E l \in Loops : PollReturn(l)

SpecDispatch == DispatchInit /\ [][DispatchNext]_vars

(***************************************************************************)
(* One poll loop and batches of up to MaxIsolationBatch calls, to the      *)
(* echo function, to a function whose handler returns an error and to an   *)
(* unregistered function.                                                  *)
(***************************************************************************)
MaxIsolationBatch == 3
BatchFns == {Function("echo", "", "nil", echo), Function("fail", "", "nil", failing)}
BatchKinds == {<<"echo", InputHello>>, <<"fail", InputHello>>, <<"ghost", InputHello>>}

BatchNext == Lifecycle(BatchFns, 1, MaxFailedCycles,
                       Batches(MaxIsolationBatch, BatchKinds), {NoHeader})

SpecBatch == Init /\ [][BatchNext]_vars

(***************************************************************************)
(* One poll loop whose failure counter runs to the limit.                  *)
(***************************************************************************)
CountingCap == MaxConsecutivePollFailures + 1
PollKinds == {<<"echo", InputHello>>, <<"ghost", InputHello>>, <<"echo", JNum>>}

PollNext == Lifecycle(LifecycleFns, 1, CountingCap, Batches(1, PollKinds), {NoHeader})

SpecPoll == Init /\ [][PollNext]_vars

(***************************************************************************)
(* Start() and Stop() in any order with every answer to the handshake,     *)
(* the loops fetching empty batches with and without a Retry-After header. *)
(***************************************************************************)
StartNext ==
    \/ \E fn \in LifecycleFns : RegisterFunc(fn)
    \/ \E resp \in HandshakeResponses : Start(resp, MaxStarts)
    \/ Stop
    \/ \E l \in Loops : Sleep(l)
    \/ \E l \in Loops : Select(l)
    \/ \E l \in Loops, header \in LifecycleHeaders : FetchOk(l, header, NoMessages, 0)
    \/ \E l \in Loops : PollReturn(l)
    \/ \E l \in Loops : AfterPoll(l)

SpecStart == Init /\ [][StartNext]_vars

(***************************************************************************)
(* Retry-After headers of every kind: absent, a negative integer, an       *)
(* integer followed by text and two integers of which either is negative.  *)
(***************************************************************************)
RetryHeaders ==
    {NoHeader, <<IntValue(-1)>>, <<IntValue(2), NotAnInt>>, <<IntValue(-1), IntValue(3)>>,
     <<IntValue(3), IntValue(-1)>>}

RetryNext ==
    \/ \E fn \in LifecycleFns : RegisterFunc(fn)
    \/ \E resp \in HandshakeResponses : Start(resp, MaxStarts)
    \/ Stop
    \/ \E l \in Loops : Sleep(l)
    \/ \E l \in Loops : Select(l)
    \/ \E l \in Loops, header \in RetryHeaders : FetchOk(l, header, NoMessages, 0)
    \/ \E l \in Loops : PollReturn(l)
    \/ \E l \in Loops : AfterPoll(l)

SpecRetry == Init /\ [][RetryNext]_vars

(***************************************************************************)
(* Restarts under fair scheduling: Start() and Stop() in any order, and    *)
(* every poll loop that can take a step eventually takes one (its          *)
(* goroutine is scheduled, its sleep ends and its fetch, here always of    *)
(* the empty batch, returns).                                              *)
(***************************************************************************)
\* A step of poll loop l.
LoopStep(l) ==
    \/ Sleep(l)
    \/ Select(l)
    \/ FetchOk(l, NoHeader, NoMessages, 0)
    \/ PollReturn(l)
    \/ AfterPoll(l)

RestartNext ==
    \/ \E fn \in LifecycleFns : RegisterFunc(fn)
    \/ \E resp \in HandshakeResponses : Start(resp, MaxStarts)
    \/ Stop
    \/ \E l \in Loops : LoopStep(l)

SpecRestart == Init /\ [][RestartNext]_vars /\ \A l \in Loops : WF_vars(LoopStep(l))

(***************************************************************************)
(* One poll loop and single calls to the echo function and to a function   *)
(* whose result encoding/json cannot marshal.                              *)
(***************************************************************************)
PersistFns == {Function("echo", "", "nil", echo), Function("watch", "", "nil", returnsChan)}
PersistKinds == {<<"echo", InputHello>>, <<"watch", InputHello>>}

PersistNext == Lifecycle(PersistFns, 1, MaxFailedCycles, Batches(1, PersistKinds), {NoHeader})

SpecPersist == Init /\ [][PersistNext]_vars

(***************************************************************************)
(* The handshake of a service with a function that has a Config and one    *)
(* that has none.                                                          *)
(***************************************************************************)
ConfigFns ==
    {Function("echo", "Echoes the input string", "nil", echo),
     Function("cached", "", "cache", reverseFn)}

ConfigNext ==
    \/ \E fn \in ConfigFns : RegisterFunc(fn)
    \/ \E resp \in HandshakeResponses : Start(resp, MaxStarts)
    \/ Stop
    \/ \E l \in Loops : Sleep(l)
    \/ \E l \in Loops : Select(l)
    \/ \E l \in Loops : FetchOk(l, NoHeader, NoMessages, 0)
    \/ \E l \in Loops : PollReturn(l)
    \/ \E l \in Loops : AfterPoll(l)

SpecConfig == Init /\ [][ConfigNext]_vars

(***************************************************************************)
(* Faults: Function values whose Func is nil, is not a function or returns *)
(* nothing, and calls to them.  A panic in a poll loop's goroutine is not  *)
(* recovered and ends the process: nothing runs after it.                  *)
(***************************************************************************)
FaultFns ==
    {Function("echo", "", "nil", echo), Function("nothing", "", "nil", noReturn),
     Function("none", "", "nil", NilFunc), Function("five", "", "nil", NotAFunc)}
FaultKinds == {<<"echo", InputHello>>, <<"nothing", InputHello>>}
Crashed == \E l \in Loops : pc[l] = "panic"

FaultNext ==
    \/ \E fn \in FaultFns : ~Crashed /\ RegisterFunc(fn)
    \/ \E resp \in HandshakeResponses : ~Crashed /\ Start(resp, 1)
    \/ ~Crashed /\ Stop
    \/ \E l \in Loops : ~Crashed /\ Sleep(l)
    \/ \E l \in Loops : ~Crashed /\ Select(l)
    \/ \E l \in Loops : ~Crashed /\ FetchFail(l, MaxFailedCycles)
    \/ \E l \in Loops, batch \in Batches(1, FaultKinds) :
          ~Crashed /\ FetchOk(l, NoHeader, batch, MaxFailedCycles)
    \/ \E l \in Loops, persistOk \in BOOLEAN : ~Crashed /\ HandleMessage(l, persistOk)
    \/ \E l \in Loops : ~Crashed /\ PollReturn(l)
    \/ \E l \in Loops : ~Crashed /\ AfterPoll(l)

SpecFault == Init /\ [][FaultNext]_vars

(***************************************************************************)
(* Two services of one client side by side: the lifecycle of the service   *)
(* up to its self-stop, and the other service registering, starting,       *)
(* polling and stopping.                                                   *)
(***************************************************************************)
ServicesNext ==
    \/ Lifecycle(LifecycleFns, 1, CountingCap, Batches(1, {<<"echo", InputHello>>}), {NoHeader})
    \/ \E fn \in LifecycleFns : PeerRegisterFunc(fn)
    \/ \E resp \in HandshakeResponses : PeerStart(resp)
    \/ PeerStop
    \/ \E ok \in BOOLEAN, header \in {NoHeader, <<IntValue(1)>>} : PeerCycle(ok, header, MaxFailedCycles)

SpecServices == Init /\ [][ServicesNext]_vars

(***************************************************************************)
(* The client facade: New, RegisterService, ServerOk and the heartbeat     *)
(* task New() starts (go inferable.startPingCluster()).                    *)
(***************************************************************************)
\* Service objects made on one client.
MaxServices == 3

FacadeReturned(op, client, name, err) == [op |-> op, client |-> client, name |-> name, err |-> err]

\* What a New(options) that failed returned: no client and the error.
NewFailed(options) ==
    [op |-> "New", client |-> 0, name |-> "", err |-> "client", options |-> options]

\* New(), up to the go statement: NewClient refuses a bad endpoint and New
\* returns its error; otherwise the Inferable value is built and its heartbeat
\* task started.  The caller does not hold the client yet.
New(options, maxClients) ==
    /\ Len(clients) < maxClients
    /\ IF NewClientErr(EndpointOf(options)) # "nil"
       THEN /\ facadeRet' = NewFailed(options)
            /\ UNCHANGED <<clients, hb>>
       ELSE /\ clients' = Append(clients, NewInferable(options, env))
            /\ hb' = Append(hb, HeartbeatStarted)
            /\ UNCHANGED facadeRet
    /\ UNCHANGED <<env, requests, svcVars, loopVars, peer>>

\* New(), from the registration of the default service to the return.
NewReturn(c) ==
    LET err == RegisterServiceErr(clients[c], "default") IN
    /\ ~clients[c].returned
    /\ clients' = IF err = "nil" THEN [clients EXCEPT ![c] = RegisterDefault(@)] ELSE clients
    /\ facadeRet' = FacadeReturned("New", c, "default", err)
    /\ UNCHANGED <<env, hb, requests, svcVars, loopVars, peer>>

\* RegisterService(serviceName) on a client its caller holds.
RegisterService(c, serviceName) ==
    LET err == RegisterServiceErr(clients[c], serviceName) IN
    /\ clients[c].returned
    /\ Len(clients[c].created) < MaxServices
    /\ clients' = IF err = "nil" THEN [clients EXCEPT ![c] = WithService(@, serviceName)]
                  ELSE clients
    /\ facadeRet' = FacadeReturned("RegisterService", c, serviceName, err)
    /\ UNCHANGED <<env, hb, requests, svcVars, loopVars, peer>>

\* ServerOk(): GET /live; answer is the control plane's: a failure, a body
\* that does not parse, a status other than "ok", or "ok".
LiveAnswers == {"error", "garbage", "degraded", "ok"}
ServerOk(c, answer) ==
    /\ clients[c].returned
    /\ requests' = requests \cup {FetchData(clients[c], LiveOptions)}
    /\ facadeRet' = FacadeReturned("ServerOk", c, "",
                                   CASE answer = "error" -> "fetch"
                                     [] answer = "garbage" -> "parse"
                                     [] answer = "ok" -> "nil"
                                     [] OTHER -> "status")
    /\ UNCHANGED <<env, clients, hb, svcVars, loopVars, peer>>

\* pingCluster(), up to the request: the names in the registry are read
\* (without synchronisation: the read sees the registry as it is before or
\* after a RegisterService that runs at the same time); with no service there
\* is no request.
PingCluster(c) ==
    LET activeServices == DOMAIN clients[c].services IN
    /\ hb[c].pc = "ping"
    /\ hb' = [hb EXCEPT ![c] =
                 IF activeServices # {}
                 THEN [@ EXCEPT !.pc = "send", !.body = activeServices]
                 ELSE [@ EXCEPT !.pc = "wait"]]
    /\ UNCHANGED <<env, clients, facadeRet, requests, svcVars, loopVars, peer>>

\* A heartbeat task that ends at the first failed request.
PingSendFatal(c, ok) ==
    /\ hb[c].pc = "send"
    /\ requests' = requests \cup {FetchData(clients[c], PingOptions)}
    /\ hb' = [hb EXCEPT ![c] = [@ EXCEPT !.pc = IF ok THEN "wait" ELSE "stopped",
                                         !.sent = @ + 1,
                                         !.fails = IF ok THEN 0 ELSE @ + 1]]
    /\ UNCHANGED <<env, clients, facadeRet, svcVars, loopVars, peer>>

\* pingCluster(), the request: POST /v2/ping reaches the control plane and
\* succeeds or fails (ok); a failure is printed and pingCluster returns.
PingSend(c, ok) ==
    /\ hb[c].pc = "send"
    /\ requests' = requests \cup {FetchData(clients[c], PingOptions)}
    /\ hb' = [hb EXCEPT ![c] = [@ EXCEPT !.pc = "wait",
                                         !.sent = @ + 1,
                                         !.fails = IF ok THEN 0 ELSE @ + 1]]
    /\ UNCHANGED <<env, clients, facadeRet, svcVars, loopVars, peer>>

\* for range ticker.C { i.pingCluster() }: the next tick.
\* maxTicks bounds the ticks of one task.
Tick(c, maxTicks) ==
    /\ hb[c].pc = "wait"
    /\ hb[c].ticks < maxTicks
    /\ hb' = [hb EXCEPT ![c] = [@ EXCEPT !.pc = "ping", !.ticks = @ + 1]]
    /\ UNCHANGED <<env, clients, facadeRet, requests, svcVars, loopVars, peer>>

Made == 1..Len(clients)

\* The caller's side of the facade, for the given inputs.
Registry(maxClients, options, names) ==
    \/ \E o \in options : New(o, maxClients)
    \/ \E c \in Made : NewReturn(c)
    \/ \E c \in Made, name \in names : RegisterService(c, name)

\* The heartbeat tasks.
Heartbeats(maxTicks) ==
    \/ \E c \in Made : PingCluster(c)
    \/ \E c \in Made, ok \in BOOLEAN : PingSend(c, ok)
    \/ \E c \in Made : Tick(c, maxTicks)

(***************************************************************************)
(* CallFunc, ToJSONDefinition and getSchema.                               *)
(***************************************************************************)
\* service.Functions of the service registered on client c under the name:
\* the first client's two services have registries that change; every other
\* service has the empty registry it was made with.
FunctionsOf(c, serviceName) ==
    IF c = 1 /\ serviceName = ServiceName THEN Functions
    ELSE IF c = 1 /\ serviceName = "default" THEN peer.Functions
    ELSE NoFunctions

\* A value passed to CallFunc: its dynamic type and, for a struct with an
\* Input field, that field; NilArg is the untyped nil.
Arg(type, input) == [Type |-> type, Input |-> input]
NilArg == [Type |-> Type("nil", "", <<>>, <<>>), Input |-> Empty]

\* The error CallFunc returns ("nil": none), or "panic" when it does not
\* return: fnValue.Call panics when an argument is the zero Value
\* (reflect.ValueOf(nil)) or is not assignable to the parameter's type.
CallFuncErr(c, serviceName, funcName, args) ==
    LET fns == FunctionsOf(c, serviceName) IN
    IF serviceName \notin DOMAIN clients[c].services THEN "service not found"
    ELSE IF funcName \notin DOMAIN fns THEN "function not found"
    ELSE IF Len(args) # Len(fns[funcName].Func.In) THEN "invalid number of arguments"
    ELSE IF \E k \in 1..Len(args) : args[k].Type # fns[funcName].Func.In[k] THEN "panic"
    ELSE "nil"

\* CallFunc(serviceName, funcName, args...): invoked lists the argument lists
\* the handler was called with, values is what it returned.
CallFunc(c, serviceName, funcName, args) ==
    LET err == CallFuncErr(c, serviceName, funcName, args) IN
    /\ clients[c].returned
    /\ facadeRet' =
          [op |-> "CallFunc", client |-> c, name |-> funcName, err |-> err,
           service |-> serviceName, args |-> args,
           invoked |-> IF err = "nil" THEN <<args>> ELSE <<>>,
           values |-> IF err = "nil"
                      THEN Call(FunctionsOf(c, serviceName)[funcName].Func, args[1].Input)
                      ELSE <<>>]
    /\ UNCHANGED <<env, clients, hb, requests, svcVars, loopVars, peer>>

\* The "functions" list of a service's entry: one funcDef per function of
\* the map (the code ranges over the map: each once, in no fixed order).
FunctionDefs(fns) ==
    {[name |-> fns[n].Name, description |-> fns[n].Description, schema |-> fns[n].schema] :
        n \in DOMAIN fns}

\* A description that leaves out the services without functions.
DefinitionsSkipEmpty(c) ==
    {[service |-> n, functions |-> FunctionDefs(FunctionsOf(c, n))] :
        n \in {m \in DOMAIN clients[c].services : DOMAIN FunctionsOf(c, m) # {}}}

\* The definitions ToJSONDefinition marshals: one serviceDef per service of
\* the registry map.
Definitions(c) ==
    {[service |-> n, functions |-> FunctionDefs(FunctionsOf(c, n))] :
        n \in DOMAIN clients[c].services}

\* ToJSONDefinition()
ToJSONDefinition(c) ==
    /\ clients[c].returned
    /\ facadeRet' = [op |-> "ToJSONDefinition", client |-> c, name |-> "", err |-> "nil",
                     definitions |-> Definitions(c)]
    /\ UNCHANGED <<env, clients, hb, requests, svcVars, loopVars, peer>>

\* The error getSchema returns ("nil": none).
GetSchemaErr(fns) == IF Cardinality(DOMAIN fns) = 0 THEN "noFunctions" ELSE "nil"

\* getSchema() on the service: the schema map, nil with the error.
GetSchema ==
    LET err == GetSchemaErr(Functions) IN
    /\ ret' = [op |-> "getSchema", name |-> "", err |-> err,
               schema |-> IF err = "nil"
                          THEN [n \in DOMAIN Functions |->
                                   [input |-> Functions[n].schema, name |-> Functions[n].Name]]
                          ELSE NoFunctions]
    /\ UNCHANGED <<Functions, clusterId, ctx, cancelled, retryAfter, machines>>
    /\ UNCHANGED loopVars
    /\ UNCHANGED <<requests, facadeVars, peer>>

\* Calls with no argument, with the struct the handler takes, with another
\* struct, with an int, with nil and with one argument too many.
CallArgs ==
    {<<>>, <<Arg(EchoInput, Hello)>>, <<Arg(ReverseInput, Hello)>>, <<Arg(IntType, Empty)>>,
     <<NilArg>>, <<Arg(EchoInput, Hello), Arg(IntType, Empty)>>}
DescribeFns ==
    {Function("echo", "Echoes the input string", "nil", echo),
     Function("reverse", "", "nil", reverseFn)}

DescribeNext ==
    \/ \E fn \in DescribeFns : RegisterFunc(fn)
    \/ \E fn \in DescribeFns : PeerRegisterFunc(fn)
    \/ \E c \in Made, name \in {"extra"} : RegisterService(c, name)
    \/ \E c \in Made, name \in {"default", ServiceName, "ghost"}, f \in {"echo", "ghost"},
          args \in CallArgs : CallFunc(c, name, f, args)
    \/ \E c \in Made : ToJSONDefinition(c)
    \/ GetSchema

SpecDescribe == Init /\ [][DescribeNext]_vars

(***************************************************************************)
(* Clients and their registries: New() with and without a machine id, in   *)
(* either environment, RegisterService with fresh and taken names, and     *)
(* RegisterFunc on the first client's service.                             *)
(***************************************************************************)
MachineIDs == {NoMachineID, MachineA, MachineB}
\* Endpoints NewClient refuses: no scheme, the scheme in capitals, one slash.
Localhost == <<"l", "o", "c", "a", "l", "h", "o", "s", "t">>
BadEndpoints ==
    {Localhost, <<"H", "T", "T", "P", ":", "/", "/", "h">>, <<"h", "t", "t", "p", "s", ":", "/", "h">>}
\* New() with each machine id and no endpoint, with an http:// endpoint and
\* with the endpoints NewClient refuses.
FacadeOptions ==
    {InferableOptions(NoEndpoint, id) : id \in MachineIDs}
        \cup {InferableOptions(HTTP \o <<"h">>, NoMachineID)}
        \cup {InferableOptions(e, NoMachineID) : e \in BadEndpoints}
ServiceNames == {"default", ServiceName}

FacadeInit ==
    /\ ServiceMade
    /\ \E e \in Environments, id \in {NoMachineID, MachineA} :
          ClientMade(e, InferableOptions(NoEndpoint, id))

FacadeNext ==
    \/ Registry(MaxClients, FacadeOptions, ServiceNames)
    \/ \E fn \in LifecycleFns : RegisterFunc(fn)

SpecFacade == FacadeInit /\ [][FacadeNext]_vars

(***************************************************************************)
(* Construction and heartbeat together: a second client is made while the  *)
(* heartbeat tasks run.                                                    *)
(***************************************************************************)
PingNext ==
    \/ Registry(MaxClients, {DefaultOptions}, {"testService"})
    \/ Heartbeats(MaxTicks)

SpecPing == Init /\ [][PingNext]_vars

(***************************************************************************)
(* The heartbeat of a client next to the lifecycle of its service.         *)
(***************************************************************************)
HeartbeatNext ==
    \/ Lifecycle(LifecycleFns, 1, MaxFailedCycles, Batches(1, {<<"echo", InputHello>>}), {NoHeader})
    \/ Heartbeats(MaxTicks)
    \/ \E c \in Made, answer \in LiveAnswers : ServerOk(c, answer)

SpecHeartbeat == Init /\ [][HeartbeatNext]_vars


(***************************************************************************)
(* Properties                                                              *)
(***************************************************************************)

\* C1: once a name is registered, a later RegisterFunc with that name returns
\* an error (whatever its handler and description) and the record registered
\* first stays in place.
RegistrationUnique ==
    [][/\ \A n \in DOMAIN Functions :
             n \in DOMAIN Functions' /\ Functions'[n] = Functions[n]
       /\ (ret' # ret /\ ret'.op = "RegisterFunc" /\ ret'.name \in DOMAIN Functions)
             => ret'.err = "duplicate"]_vars

\* A second registration of TestFunc was refused while echo is registered
\* under that name.
DuplicateRefused ==
    /\ ret.op = "RegisterFunc"
    /\ ret.err = "duplicate"
    /\ ret.name = "TestFunc"
    /\ "TestFunc" \in DOMAIN Functions
    /\ Functions["TestFunc"].Func = echo
    /\ Functions["TestFunc"].Description = "Test function"
    /\ Functions["TestFunc"].Config = "cache"

\* The persist requests of loop l's current cycle.
Sent(l) == {results[l][k] : k \in 1..Len(results[l])}
SentIds(l) == {r.Id : r \in Sent(l)}
PersistedIds(l) == {r.Id : r \in {q \in Sent(l) : q.ok}}
Handled(l) == 1..(idx[l] - 1)
InBatch(l) == pc[l] = "handle" \/ (pc[l] = "after" /\ pollErr[l] \in {"nil", "messages"})

ReturnedFor(l, r) ==
    Call(Functions[parsed[l][r.Id].Function].Func, Unmarshal(parsed[l][r.Id].Input).arg)

OlleH ==
    <<"!", "e", "l", "b", "a", "r", "e", "f", "n", "I", " ", ",", "o", "l", "l", "e", "H">>

DispatchCorrect ==
    \A l \in Loops : \A i \in Handled(l) :
        LET msg == parsed[l][i] IN
        (/\ msg.Function \in DOMAIN Functions
         /\ msg.Input.t = "object" /\ msg.Input.key = "Input" /\ msg.Input.vt = "string")
        => \E r \in Sent(l) :
              /\ r.Id = msg.Id
              /\ Functions[msg.Function].Func = echo =>
                    /\ r.ResultType = "resolution"
                    /\ r.Result = [isNil |-> FALSE, s |-> msg.Input.s]
                    /\ msg.Input = InputHello => r.Result.s = Hello
              /\ (Functions[msg.Function].Func = reverseFn
                    /\ msg.Input.s = HelloInferable) =>
                    /\ r.ResultType = "resolution"
                    /\ r.Result = [isNil |-> FALSE, s |-> OlleH]

\* reverse was dispatched with {"Input": "Hello, Inferable!"} and its result sent.
ReverseDispatched ==
    \E l \in Loops : \E r \in Sent(l) :
        /\ Functions[parsed[l][r.Id].Function].Func = reverseFn
        /\ parsed[l][r.Id].Input = Obj("Input", "string", HelloInferable)
        /\ r.Result.s = OlleH


\* C5: the loop's failure counter moves only after a cycle whose fetch
\* failed (the request failed or its body did not parse); a cycle whose
\* fetch succeeded and in which messages failed leaves it alone.
CountsOnlyFetchFailures ==
    [][\A l \in Loops :
          (pc[l] = "after" /\ failureCount'[l] # failureCount[l])
             => pollErr[l] \in {"fetch", "parse"}]_vars

\* C6: the loop stops itself exactly when more than
\* MaxConsecutivePollFailures of its cycles have failed: on the 51st failed
\* cycle and on no earlier one.
StopsOnFiftyFirstFailure ==
    \A l \in Loops : selfStopped[l] <=> failedCycles[l] > MaxConsecutivePollFailures

\* C7: the limit is on consecutive failures: a loop none of whose failed
\* cycles directly followed another failed cycle never stops itself.
SeparatedFailuresNeverStop ==
    \A l \in Loops : selfStopped[l] => sawConsecutive[l]

\* C8: once the context a loop was started under is cancelled, the loop's
\* next cancellation check ends it: it fetches no more.
CancelledLoopExits ==
    [][\A l \in Loops :
          (pc[l] = "select" /\ l \in cancelled /\ pc'[l] # pc[l]) => pc'[l] = "done"]_vars

\* C9: at most one poll cycle of the service is executing (fetching or
\* handling its batch) at any time.
AtMostOneCycle ==
    Cardinality({l \in Loops : pc[l] \in {"fetch", "handle"}}) <= 1

\* C10: Start() on a service with no registered function returns an error,
\* sends no registration request and starts no poll loop.
StartNeedsFunctions ==
    DOMAIN Functions = {} =>
        /\ ret.op = "Start" => ret.err = "noFunctions"
        /\ machines = <<>>
        /\ ctx = 0
        /\ clusterId = ""
        /\ \A l \in Loops : pc[l] = "idle"

\* Start() has been called on the empty service and has returned its error.
StartRefusedEmpty ==
    /\ DOMAIN Functions = {}
    /\ ret.op = "Start"
    /\ ret.err = "noFunctions"

\* C11: a Start() whose handshake fails (the request fails or the answer does
\* not parse) returns an error, starts no poll loop, makes no context and
\* leaves the cluster id as it was; a service that was not polling is still
\* not polling.
FailedHandshakeStartsNothing ==
    [][machines' # machines =>
          LET m == machines'[Len(machines')] IN
          m.response.body \notin ClusterIds =>
             /\ ret'.op = "Start"
             /\ ret'.err \in {"handshake", "parse"}
             /\ m.loop = 0
             /\ UNCHANGED <<clusterId, ctx, cancelled, retryAfter, pc, failureCount>>
             /\ ctx = 0 => (ctx' = 0 /\ \A l \in Loops : pc'[l] = "idle")]_vars

\* Start() on a service with a function got an answer that does not parse:
\* it returned the error and the service has no context, cluster id or loop.
HandshakeRefused ==
    /\ ret.op = "Start"
    /\ ret.err = "parse"
    /\ Len(machines) = 1
    /\ machines[1].response.body = "garbage"
    /\ ctx = 0
    /\ clusterId = ""
    /\ \A l \in Loops : pc[l] = "idle"

\* Loop l is running under a context that has not been cancelled.
Polling(l) == pc[l] \notin {"idle", "done"} /\ l \notin cancelled

\* C12: each wait of a loop lasts the current backoff, and while a loop is
\* polling the backoff changes only when a fetch succeeds (with a Retry-After
\* value): not on a failed fetch and not otherwise.
BackoffFollowsRetryAfter ==
    [][/\ \A l \in Loops :
             (pc[l] = "sleep" /\ pc'[l] = "select") => waited'[l] = <<retryAfter>>
       /\ (retryAfter' # retryAfter /\ \E l \in Loops : Polling(l)) =>
             \E l \in Loops :
                 pc[l] = "fetch" /\ pc'[l] \in {"handle", "after"} /\ pollErr'[l] # "fetch"]_vars

\* C13: the first wait of a poll loop lasts the retry interval the control
\* plane suggested in the handshake that started the loop.
FirstWaitIsSuggestedInterval ==
    [][\A l \in Loops :
          (pc[l] = "sleep" /\ waited[l] = NotYet /\ pc'[l] = "select") =>
             \E i \in 1..Len(machines) :
                 /\ machines[i].loop = l
                 /\ waited'[l] = <<machines[i].response.retryAfter>>]_vars

\* Type t holds, at some depth, a slice whose elements are a named struct.
RECURSIVE HasCollectionOfNamed(_)
HasCollectionOfNamed(t) ==
    \/ t.Kind = "slice" /\ t.Elem[1].Kind = "struct" /\ t.Elem[1].Name # ""
    \/ \E i \in 1..Len(t.Fields) : HasCollectionOfNamed(t.Fields[i].Type)
    \/ \E i \in 1..Len(t.Elem) : HasCollectionOfNamed(t.Elem[i])

\* The handler takes exactly one argument, and it is a struct.
TakesOneStruct(h) == Len(h.In) = 1 /\ h.In[1].Kind = "struct"

\* C14: RegisterFunc of a handler whose input struct has a field reaching a
\* named struct through a collection returns an error whose text names the
\* function, and no record with that handler is in the registry.
RefRejectedByName ==
    (/\ ret.op = "RegisterFunc"
     /\ TakesOneStruct(ret.fn.Func)
     /\ \E i \in 1..Len(ret.fn.Func.In[1].Fields) :
            HasCollectionOfNamed(ret.fn.Func.In[1].Fields[i].Type))
    => /\ ret.err # "nil"
       /\ \E k \in 1..Len(ret.args) : ret.args[k] = ret.fn.Name
       /\ \A n \in DOMAIN Functions : Functions[n].Func # ret.fn.Func

\* C15: RegisterFunc of a handler that does not take exactly one argument, or
\* whose argument is not a struct, returns an error, and no handler of such a
\* shape is ever in the registry.
WrongShapeRefused ==
    /\ (ret.op = "RegisterFunc" /\ ~TakesOneStruct(ret.fn.Func)) =>
            ret.err \in {"duplicate", "numIn", "notStruct"}
    /\ \A n \in DOMAIN Functions : TakesOneStruct(Functions[n].Func)

\* Handlers taking a pointer to a struct and taking a struct and an int have
\* been refused, nothing being registered under their names.
PointerArgumentRefused ==
    /\ ret.op = "RegisterFunc"
    /\ ret.fn.Func \in {ptrArg, structAndInt, mapArg, zeroArgs}
    /\ ret.err \in {"numIn", "notStruct"}
    /\ ret.name \notin DOMAIN Functions

\* No field of struct t reaches a named struct.
SimpleFields(t) == \A i \in 1..Len(t.Fields) : NamedStructs(t.Fields[i].Type) = {}

\* C16: RegisterFunc of a handler whose one parameter is a struct with only
\* primitive, array and anonymous nested-struct fields succeeds (unless the
\* name is taken), and the stored schema is an object schema whose required
\* list is the set of fields without the optional marker and that has no
\* additionalProperties entry.
SchemaShape ==
    (/\ ret.op = "RegisterFunc"
     /\ TakesOneStruct(ret.fn.Func)
     /\ SimpleFields(ret.fn.Func.In[1]))
    => /\ ret.err \in {"nil", "duplicate"}
       /\ ret.err = "nil" =>
             LET schema == Functions[ret.name].schema
                 fields == ret.fn.Func.In[1].Fields
             IN
             /\ schema.type = "object"
             /\ {schema.required[k] : k \in 1..Len(schema.required)}
                    = {fields[i].Name : i \in {j \in 1..Len(fields) : ~fields[j].Optional}}
             /\ schema.additionalProperties = "nil"

\* C17: a RegisterFunc call that returns an error leaves the registry as it was.
FailedRegistrationChangesNothing ==
    [][(ret'.op = "RegisterFunc" /\ ret'.err # "nil") => Functions' = Functions]_vars

\* InvalidFunc was refused for the $ref in its schema while TestFunc is
\* registered: the registry holds TestFunc alone.
RefRefusedRegistryKept ==
    /\ ret.op = "RegisterFunc"
    /\ ret.name = "InvalidFunc"
    /\ ret.err = "ref"
    /\ DOMAIN Functions = {"TestFunc"}

\* C18: whatever step is taken (RegisterFunc, Start, Stop, a step of a poll
\* cycle or of the dispatch), every registered record is still registered
\* after it, with the same name, description, schema, config and handler.
RecordsImmutable ==
    [][\A n \in DOMAIN Functions :
          /\ n \in DOMAIN Functions'
          /\ Functions'[n].Name = n
          /\ Functions'[n].Description = Functions[n].Description
          /\ Functions'[n].schema = Functions[n].schema
          /\ Functions'[n].Config = Functions[n].Config
          /\ Functions'[n].Func = Functions[n].Func]_vars

\* Both functions are registered as first given, a second registration of
\* one has just been refused, and the loop has run a failing cycle, handled
\* calls and ended.
RecordsKeptThroughLifecycle ==
    /\ DOMAIN Functions = {"echo", "fail"}
    /\ Functions["echo"].Func = echo
    /\ Functions["fail"].Func = failing
    /\ ret.op = "RegisterFunc"
    /\ ret.err = "duplicate"
    /\ pc[1] = "done"
    /\ failedCycles[1] > 0

\* C19: handling a message whose function is not registered, or whose input
\* does not decode, calls no handler, sends no persist request, adds its one
\* failure to the cycle's errors and moves on to the next message: the
\* message is not handled again.
UnroutableNotHandled ==
    [][\A l \in Loops : (pc[l] = "handle" /\ idx'[l] # idx[l]) =>
          LET msg == parsed[l][idx[l]] IN
          (msg.Function \notin DOMAIN Functions \/ ~Unmarshal(msg.Input).ok) =>
             /\ calls'[l] = calls[l]
             /\ results'[l] = results[l]
             /\ errors'[l] = Append(errors[l],
                    IF msg.Function \notin DOMAIN Functions
                    THEN "function not found" ELSE "failed to unmarshal input")
             /\ idx'[l] = idx[l] + 1
             /\ parsed'[l] = parsed[l]]_vars

\* A cycle whose one call had an undecodable input for a registered function
\* is over: no handler was called, nothing was sent, poll() returns the error.
UndecodableSkipped ==
    \E l \in Loops :
        /\ pc[l] = "after"
        /\ Len(parsed[l]) = 1
        /\ parsed[l][1].Function \in DOMAIN Functions
        /\ parsed[l][1].Input = JNum
        /\ calls[l] = <<>>
        /\ results[l] = <<>>
        /\ errors[l] = <<"failed to unmarshal input">>
        /\ pollErr[l] = "messages"

\* C20: handling a message whose function is registered and whose input
\* decodes calls the handler once and sends one persist request with the
\* message's id; a refused request adds its failure to the cycle's errors,
\* and the loop moves on to the next message.
OnePersistPerCall ==
    [][\A l \in Loops : (pc[l] = "handle" /\ idx'[l] # idx[l]) =>
          LET msg == parsed[l][idx[l]] IN
          (msg.Function \in DOMAIN Functions /\ Unmarshal(msg.Input).ok) =>
             /\ calls'[l] = Append(calls[l], msg.Id)
             /\ Len(results'[l]) = Len(results[l]) + 1
             /\ results'[l][Len(results'[l])].Id = msg.Id
             /\ errors'[l] = IF results'[l][Len(results'[l])].ok THEN errors[l]
                             ELSE Append(errors[l], "failed to persist job result")
             /\ idx'[l] = idx[l] + 1]_vars

\* The last element of a non-empty sequence.
Last(seq) == seq[Len(seq)]

\* C21: within one poll cycle the batch is handled in the order received: the
\* handler invoked is that of the next message of the batch, after the
\* handlers and the persist requests of all earlier messages, and a persist
\* request is sent in the step that invoked its message's handler, so before
\* the handler of any later message.
HandledInOrder ==
    [][\A l \in Loops :
          /\ (calls'[l] # calls[l] /\ calls'[l] # <<>>) =>
                /\ calls'[l] = Append(calls[l], parsed[l][idx[l]].Id)
                /\ idx'[l] = idx[l] + 1
                /\ \A k \in 1..Len(calls[l]) : calls[l][k] \in {parsed[l][i].Id : i \in Handled(l)}
                /\ \A k \in 1..Len(results[l]) : results[l][k].Id \in {parsed[l][i].Id : i \in Handled(l)}
          /\ (results'[l] # results[l] /\ results'[l] # <<>>) =>
                /\ calls'[l] # calls[l]
                /\ results'[l] = Append(results[l], Last(results'[l]))
                /\ Last(results'[l]).Id = Last(calls'[l])]_vars

\* A batch of three, handled up to its second message: both handlers were
\* called and both results sent, first to second, the third is still to come.
TwoOfThreeInOrder ==
    \E l \in Loops :
        /\ pc[l] = "handle"
        /\ Len(parsed[l]) = 3
        /\ idx[l] = 3
        /\ calls[l] = <<1, 2>>
        /\ Len(results[l]) = 2
        /\ results[l][1].Id = 1
        /\ results[l][2].Id = 2

\* C22: RegisterService with a name the client already has returns an error
\* and changes neither the client's registry nor the functions of the
\* registered service; every service object a client has made is the one
\* registered under its name, so no two of them share a name.
ServiceNamesUnique ==
    /\ [](\A c \in Made : \A k \in 1..Len(clients[c].created) :
              /\ clients[c].created[k] \in DOMAIN clients[c].services
              /\ clients[c].services[clients[c].created[k]] = k)
    /\ [][(facadeRet' # facadeRet /\ facadeRet'.op = "RegisterService"
              /\ facadeRet'.name \in DOMAIN clients[facadeRet'.client].services) =>
             /\ facadeRet'.err = "exists"
             /\ clients' = clients
             /\ Functions' = Functions]_vars

\* RegisterService(ServiceName) was refused on the first client, whose service
\* of that name is still its second object and still has its function.
DuplicateServiceRefused ==
    /\ facadeRet = FacadeReturned("RegisterService", 1, ServiceName, "exists")
    /\ clients[1].services[ServiceName] = 2
    /\ clients[1].created = <<"default", ServiceName>>
    /\ DOMAIN Functions = {"echo"}

\* C23: a client New() has returned has a service named "default" in its
\* registry and its Default field points to that service object, in every
\* later state; RegisterService("default") on such a client always fails.
DefaultServiceAlways ==
    /\ [](\A c \in Made : clients[c].returned =>
              /\ "default" \in DOMAIN clients[c].services
              /\ clients[c].Default = clients[c].services["default"]
              /\ clients[c].Default \in 1..Len(clients[c].created)
              /\ clients[c].created[clients[c].Default] = "default")
    /\ [][(facadeRet' # facadeRet /\ facadeRet'.op = "RegisterService"
              /\ facadeRet'.name = "default") => facadeRet'.err = "exists"]_vars

\* The second client was made by New(); RegisterService("default") on it was
\* refused and its Default is still the first service object it made.
ExplicitDefaultRefused ==
    /\ Len(clients) = 2
    /\ facadeRet = FacadeReturned("RegisterService", 2, "default", "exists")
    /\ clients[2].Default = 1
    /\ clients[2].services["default"] = 1

\* C24: a failed heartbeat request leaves the heartbeat task waiting for its
\* next tick and leaves the polling state of the service alone; the task is
\* never in any state but its three, a tick always leads to the next
\* pingCluster call, and that call sends a request whenever a service is
\* registered, however many requests failed before.
HeartbeatSurvivesFailure ==
    /\ [](\A c \in Made : hb[c].pc \in {"ping", "send", "wait"})
    /\ [][\A c \in Made :
             /\ hb'[c].fails > hb[c].fails =>
                   /\ hb'[c].pc = "wait"
                   /\ UNCHANGED <<pc, ctx, cancelled, retryAfter, failureCount, selfStopped,
                                  clusterId, Functions>>
             /\ (hb[c].pc = "wait" /\ hb'[c] # hb[c]) => hb'[c].pc = "ping"
             /\ (hb[c].pc = "ping" /\ hb'[c] # hb[c]) =>
                   hb'[c].pc = IF DOMAIN clients[c].services # {} THEN "send" ELSE "wait"]_vars

\* Two heartbeat requests in a row have failed and the third is on its way,
\* while a poll loop of the service is running.
ThirdPingAfterTwoFailures ==
    /\ hb[1].fails = 2
    /\ hb[1].sent = 2
    /\ hb[1].pc = "send"
    /\ \E l \in Loops : Polling(l)

\* C25: the services list of every heartbeat request the control plane
\* receives is the set of names registered on the client that sent it.
HeartbeatListsRegistry ==
    [][\A c \in Made : hb'[c].sent > hb[c].sent =>
          hb[c].body = DOMAIN clients[c].services]_vars

\* C26: a client's heartbeat task has sent a request by the time its first
\* heartbeat interval has elapsed, however its first pingCluster call is
\* interleaved with New()'s registration of the default service.
FirstHeartbeatWithinInterval ==
    \A c \in Made : hb[c].ticks > 0 => hb[c].sent > 0

\* C27: every request the control plane receives from the library (handshake,
\* fetch of pending calls, persist result, heartbeat, liveness check) has an
\* X-Machine-ID header holding the machine id of the client that sent it.
EveryRequestCarriesMachineID ==
    \A r \in requests :
        /\ "X-Machine-ID" \in DOMAIN r.Headers
        /\ r.Headers["X-Machine-ID"] = r.from

HandshakeListsFunctions ==
    [][machines' # machines =>
          LET sent == Last(machines').functions IN
          /\ Cardinality(sent) = Cardinality(DOMAIN Functions)
          /\ \A n \in DOMAIN Functions :
                \E e \in sent :
                    /\ e.name = Functions[n].Name
                    /\ e.description = Functions[n].Description
                    /\ e.schema = Marshal(Functions[n].schema)
                    /\ Functions[n].Config # "nil" =>
                          ("config" \in DOMAIN e /\ e.config = Functions[n].Config)]_vars

\* C30: RegisterFunc and Start return (nil or an error) for every Function
\* value and every answer, and the dispatch of a call to a registered
\* function returns: no operation panics.
NoFault ==
    /\ ret.err # "panic"
    /\ \A l \in Loops : pc[l] # "panic"

\* C31: New() returns an error and no client exactly for an endpoint that is
\* given and starts with neither http:// nor https://, and then no client is
\* made, no service registered, no heartbeat task started and no request
\* sent; every client that exists has an endpoint with one of the two
\* prefixes, the default endpoint when none was given.
ConstructionFailsFast ==
    /\ [](\A c \in Made :
              /\ HasPrefix(clients[c].apiEndpoint, HTTP) \/ HasPrefix(clients[c].apiEndpoint, HTTPS)
              /\ clients[c].apiEndpoint =
                    IF clients[c].options.APIEndpoint = NoEndpoint THEN DefaultAPIEndpoint
                    ELSE clients[c].options.APIEndpoint)
    /\ [][(facadeRet' # facadeRet /\ facadeRet'.op = "New" /\ facadeRet'.client = 0) =>
             /\ facadeRet'.err = "client"
             /\ facadeRet'.options.APIEndpoint # NoEndpoint
             /\ ~HasPrefix(facadeRet'.options.APIEndpoint, HTTP)
             /\ ~HasPrefix(facadeRet'.options.APIEndpoint, HTTPS)
             /\ UNCHANGED <<clients, hb, requests, Functions>>]_vars

\* New() with the endpoint "localhost" has returned its error: there is still
\* the one client of the start, with its one heartbeat task, and a second
\* New() without an endpoint can still be made.
BadEndpointRefused ==
    /\ facadeRet = NewFailed(InferableOptions(Localhost, NoMachineID))
    /\ Len(clients) = 1
    /\ Len(hb) = 1
    /\ clients[1].apiEndpoint = DefaultAPIEndpoint

\* The fields and loop state of the service, and those of the other service.
ServiceState == <<svcVars, loopVars>>

\* C32: the two services of a client are independent: no step changes state
\* of both, so a RegisterFunc, Start, Stop, poll cycle, fetch failure or
\* self-stop of one leaves the function registry, context, cancellation,
\* backoff interval and failure count of the other as they were.
ServicesIndependent ==
    [][~(ServiceState' # ServiceState /\ peer' # peer)]_vars

\* The service has stopped itself after too many failed cycles while the
\* other service, started and never stopped, is still polling with its own
\* registry, backoff interval and failure count.
SelfStopLeavesPeerPolling ==
    /\ selfStopped[1]
    /\ 1 \in cancelled
    /\ peer.pc = "run"
    /\ peer.ctx = 1
    /\ peer.cancelled = {}
    /\ DOMAIN peer.Functions = {"echo"}
    /\ peer.retryAfter = 1
    /\ peer.failureCount = DefaultRetryAfter + 1

\* C33: a CallFunc call returns an error and invokes no handler when the
\* service is unknown, the function is unknown in it or the number of
\* arguments is not the handler's parameter count; every other call returns
\* no error, has invoked the handler once with the arguments given and
\* returns what the handler returned.
CallFuncContract ==
    [][(facadeRet' # facadeRet /\ facadeRet'.op = "CallFunc") =>
          LET r == facadeRet'
              fns == FunctionsOf(r.client, r.service)
              refused ==
                  \/ r.service \notin DOMAIN clients[r.client].services
                  \/ r.name \notin DOMAIN fns
                  \/ Len(r.args) # Len(fns[r.name].Func.In)
          IN
          IF refused
          THEN /\ r.err \notin {"nil", "panic"}
               /\ r.invoked = <<>>
               /\ r.values = <<>>
          ELSE /\ r.err = "nil"
               /\ r.invoked = <<r.args>>
               /\ r.values = Call(fns[r.name].Func, r.args[1].Input)]_vars

\* C34: what ToJSONDefinition returns has exactly one entry for every service
\* registered on the client, the default service included, and the entry of
\* a service lists exactly the functions registered on it (none for a
\* service without functions), each with its name, description and schema;
\* getSchema on a service without functions returns an error, and on a
\* service with functions the schema and name of each.
DefinitionsComplete ==
    [][/\ (facadeRet' # facadeRet /\ facadeRet'.op = "ToJSONDefinition") =>
             LET r == facadeRet'
                 services == DOMAIN clients[r.client].services
             IN
             /\ r.err = "nil"
             /\ {e.service : e \in r.definitions} = services
             /\ Cardinality(r.definitions) = Cardinality(services)
             /\ \A e \in r.definitions :
                   LET fns == FunctionsOf(r.client, e.service) IN
                   /\ Cardinality(e.functions) = Cardinality(DOMAIN fns)
                   /\ \A n \in DOMAIN fns :
                         \E f \in e.functions :
                             /\ f.name = n
                             /\ f.name = fns[n].Name
                             /\ f.description = fns[n].Description
                             /\ f.schema = fns[n].schema
       /\ (ret' # ret /\ ret'.op = "getSchema") =>
             /\ DOMAIN Functions = {} => ret'.err # "nil"
             /\ DOMAIN Functions # {} =>
                   /\ ret'.err = "nil"
                   /\ DOMAIN ret'.schema = DOMAIN Functions
                   /\ \A n \in DOMAIN Functions :
                         /\ ret'.schema[n].name = n
                         /\ ret'.schema[n].input = Functions[n].schema]_vars

\* The description of the first client with its three services: the default
\* service, which has no function, is listed with no function, the service
\* with the echo function with that function and its description.
DefaultListedEmpty ==
    /\ facadeRet.op = "ToJSONDefinition"
    /\ facadeRet.client = 1
    /\ DOMAIN clients[1].services = {"default", ServiceName, "extra"}
    /\ DOMAIN peer.Functions = {}
    /\ DOMAIN Functions = {"echo"}
    /\ [service |-> "default", functions |-> {}] \in facadeRet.definitions
    /\ \E e \in facadeRet.definitions :
          /\ e.service = ServiceName
          /\ \E f \in e.functions : f.name = "echo" /\ f.description = "Echoes the input string"
    /\ Cardinality(facadeRet.definitions) = 3

\* C35: a poll loop whose context has been cancelled by Stop() eventually
\* terminates, whether or not Start() is called again before the loop makes
\* its next cancellation check, so that after Stop() and a new Start() the
\* new loop is in the end the only one.
StoppedLoopTerminates ==
    \A l \in Loops : [](l \in cancelled => <>(pc[l] = "done"))

\* C36: no registration writes a registry map while a background task is at
\* its read of that map with nothing ordering the two: no RegisterService
\* (New()'s registration of "default" included) writes a client's services
\* while the client's heartbeat task is at its iteration over them, and no
\* RegisterFunc writes the service's functions while a poll loop is at the
\* lookup of a fetched call.
NoRegistryRace ==
    [][/\ \A c \in Made :
             hb[c].pc = "ping" => clients'[c].services = clients[c].services
       /\ (\E l \in Loops : pc[l] = "handle" /\ idx[l] <= Len(parsed[l])) =>
             Functions' = Functions]_vars

\* C37: isPolling() is true exactly when the service has a poll loop that was
\* started and whose context has not been cancelled since, by Stop() or by
\* the loop stopping itself.
IsPollingExact ==
    isPolling <=> (ctx # 0 /\ ctx \notin cancelled)

\* The function names of the latest handshake the control plane accepted.
AnnouncedNames ==
    LET accepted == {i \in 1..Len(machines) : machines[i].loop # 0} IN
    IF accepted = {} THEN {}
    ELSE {f.name : f \in machines[CHOOSE i \in accepted : \A j \in accepted : j <= i].functions}

\* C38: while a poll loop of the service is polling, the names the loop can
\* dispatch (those in the registry it looks calls up in) are the names the
\* latest accepted handshake announced, however RegisterFunc and Start()
\* are interleaved.
DispatchableIsAnnounced ==
    (\E l \in Loops : Polling(l)) => DOMAIN Functions = AnnouncedNames

\* C39: the backoff interval of the service is never negative, whatever
\* Retry-After values the control plane sends with its answers.
BackoffNonNegative ==
    retryAfter >= 0

=============================================================================
